---- MODULE Spec2Model ----
(***************************************************************************)
(* Versioned Object Store (VOS): the object tier of vos/vos_obj.c          *)
(* (punch, key / single-value iterators, object attributes) over the       *)
(* epoch-versioned key trees, the object index and the object cache.       *)
(*                                                                         *)
(* Every public call is one action: the scheduler is cooperative and a     *)
(* call of vos_obj.c contains no yield point between vos_tx_begin and      *)
(* vos_tx_end.  Failures of the collaborators (PMDK, DTX, allocation) are  *)
(* inputs of the call, drawn from small sets.                              *)
(***************************************************************************)
EXTENDS Integers, Sequences, FiniteSets, TLC

(* ------------------------------ bounds -------------------------------- *)
MaxEpoch == 3
MaxOps == 3
MaxIdx == 1
NumVals == 2
NumOids == 2
MaxHolds == 2
MaxFaults == 1
LruSize == 1
MaxIterWrites == 2

Epochs == 1..MaxEpoch
\* the "unbounded future" sentinel: larger than every epoch a caller uses
DAOS_EPOCH_MAX == MaxEpoch + 1
Oids == 1..NumOids
\* the object the data path works on; the other objects only load the cache
DataOids == {1}
Dkeys == {1, 2}
Akeys == {1, 2}
Vals == 1..NumVals
Extents == {x \in [lo : 0..MaxIdx, hi : 0..MaxIdx] : x.lo <= x.hi}

(* --------------------------- return codes ----------------------------- *)
DER_SUCCESS == "DER_SUCCESS"
DER_NONEXIST == "DER_NONEXIST"
DER_INVAL == "DER_INVAL"
DER_NO_PERM == "DER_NO_PERM"
DER_NOMEM == "DER_NOMEM"
DER_INPROGRESS == "DER_INPROGRESS"
DER_NO_HDL == "DER_NO_HDL"
DER_IO == "DER_IO"
DER_EXIST == "DER_EXIST"
DER_OVERFLOW == "DER_OVERFLOW"

Min(a, b) == IF a <= b THEN a ELSE b
Max(a, b) == IF a >= b THEN a ELSE b

(* ------------------------- persistent records ------------------------- *)
\* An array akey carries an extent tree, the other akeys a single-value
\* tree (krec->kr_bmap); callers keep one value type per akey.
KREC_BF_EVT == "KREC_BF_EVT"
KREC_BF_BTR == "KREC_BF_BTR"
AkeyType(ak) == IF ak = 1 THEN KREC_BF_EVT ELSE KREC_BF_BTR

\* Records of the three key trees.  "epoch" is the epoch part of the tree
\* key: the punch epoch of a punched incarnation, DAOS_EPOCH_MAX otherwise.
NewObj(oid, epoch) ==
    [key |-> oid, epoch |-> DAOS_EPOCH_MAX, earliest |-> epoch, latest |-> epoch,
     punched |-> FALSE, attr |-> {}, tree |-> {}]
NewDkey(dk, epoch) ==
    [key |-> dk, epoch |-> DAOS_EPOCH_MAX, earliest |-> epoch, latest |-> epoch,
     punched |-> FALSE, tree |-> {}]
NewAkey(ak, epoch) ==
    [key |-> ak, epoch |-> DAOS_EPOCH_MAX, earliest |-> epoch, latest |-> epoch,
     punched |-> FALSE, bmap |-> AkeyType(ak), recs |-> {}]

VOS_BTR_DKEY == "VOS_BTR_DKEY"
VOS_BTR_AKEY == "VOS_BTR_AKEY"
VOS_BTR_OBJ == "VOS_BTR_OBJ"
NewRec(tclass, key, epoch) ==
    CASE tclass = VOS_BTR_OBJ -> NewObj(key, epoch)
      [] tclass = VOS_BTR_DKEY -> NewDkey(key, epoch)
      [] OTHER -> NewAkey(key, epoch)

(* ------------------------- tree primitives ---------------------------- *)
\* dbtree_fetch(BTR_PROBE_GE | BTR_PROBE_MATCHED): the record of this key
\* with the smallest tree epoch >= epoch, as a set of at most one record.
dbtree_fetch_ge(tree, key, epoch) ==
    LET c == {r \in tree : r.key = key /\ r.epoch >= epoch}
    IN  {r \in c : \A q \in c : r.epoch <= q.epoch}

\* dbtree_fetch(BTR_PROBE_GT | BTR_PROBE_MATCHED)
dbtree_fetch_gt(tree, key, epoch) == dbtree_fetch_ge(tree, key, epoch + 1)

\* The uniform visibility rule of a key record for a reader at epoch E
Tombstoned(r, E) == r.punched /\ r.latest <= E
NotYetCreated(r, E) == r.earliest > E
KeyVisible(r, E) == ~NotYetCreated(r, E) /\ ~Tombstoned(r, E)

vos_df_ts_update(r, lo, hi) ==
    [r EXCEPT !.earliest = Min(@, lo), !.latest = Max(@, hi)]

\* key_tree_prepare: find the incarnation of the key that serves epoch and
\* return it apart from the rest of the tree; with SUBTR_CREATE a missing
\* key is inserted and the record's epoch bounds are widened to the epoch.
\* A key punched at this very epoch is reported as nonexistent.
key_tree_prepare(tree, tclass, key, epoch, create) ==
    LET f == dbtree_fetch_ge(tree, key, epoch)
    IN  IF f = {}
        THEN IF create
             THEN [rc |-> DER_SUCCESS, rest |-> tree, rec |-> NewRec(tclass, key, epoch)]
             ELSE [rc |-> DER_NONEXIST, rest |-> tree, rec |-> NewRec(tclass, key, epoch)]
        ELSE LET r == CHOOSE x \in f : TRUE
             IN  IF Tombstoned(r, epoch)
                 THEN [rc |-> DER_NONEXIST, rest |-> tree, rec |-> r]
                 ELSE [rc |-> DER_SUCCESS, rest |-> tree \ {r},
                       rec |-> IF create THEN vos_df_ts_update(r, epoch, epoch) ELSE r]

\* key_tree_punch: the incarnation that serves the epoch is renamed to the
\* punch epoch and flagged punched, its subtree left as it is; a punch
\* below the latest epoch of the incarnation is refused; a key with no
\* incarnation at the epoch gets an empty tombstone.
key_tree_punch(tree, tclass, key, epoch) ==
    LET f == dbtree_fetch_ge(tree, key, epoch)
    IN  IF f = {}
        THEN [rc |-> DER_SUCCESS,
              tree |-> tree \cup {[NewRec(tclass, key, epoch) EXCEPT
                                      !.epoch = epoch, !.punched = TRUE]}]
        ELSE LET r == CHOOSE x \in f : TRUE
             IN  IF r.punched /\ r.epoch = epoch
                 THEN [rc |-> DER_SUCCESS, tree |-> tree]
                 ELSE IF r.latest > epoch
                      THEN [rc |-> DER_NO_PERM, tree |-> tree]
                      ELSE [rc |-> DER_SUCCESS,
                            tree |-> (tree \ {r}) \cup
                                     {[r EXCEPT !.epoch = epoch, !.punched = TRUE,
                                                !.latest = epoch]}]

\* evt_insert / single-value upsert of one record extent at an epoch.  An
\* entry of the same epoch and extent is replaced; an entry of the same
\* epoch that overlaps without being equal is refused.
Overlap(a, lo, hi) == a.lo <= hi /\ lo <= a.hi
\* Mutant of the insert: an entry of the same epoch and extent stays as it
\* was and the insert reports success
rec_insert_first_wins(recs, epoch, lo, hi, val) ==
    LET same == {x \in recs : x.epoch = epoch /\ x.lo = lo /\ x.hi = hi}
        clash == {x \in recs \ same : x.epoch = epoch /\ Overlap(x, lo, hi)}
    IN  IF clash # {}
        THEN [rc |-> DER_INVAL, recs |-> recs]
        ELSE IF same # {}
             THEN [rc |-> DER_SUCCESS, recs |-> recs]
             ELSE [rc |-> DER_SUCCESS,
                   recs |-> recs \cup
                            {[epoch |-> epoch, lo |-> lo, hi |-> hi, val |-> val]}]

rec_insert(recs, epoch, lo, hi, val) ==
    LET same == {x \in recs : x.epoch = epoch /\ x.lo = lo /\ x.hi = hi}
        clash == {x \in recs \ same : x.epoch = epoch /\ Overlap(x, lo, hi)}
    IN  IF clash # {}
        THEN [rc |-> DER_INVAL, recs |-> recs]
        ELSE [rc |-> DER_SUCCESS,
              recs |-> (recs \ same) \cup
                       {[epoch |-> epoch, lo |-> lo, hi |-> hi, val |-> val]}]

(* ------------------------------ faults -------------------------------- *)
\* Faults a call can meet, one per call at most
F_NONE == "F_NONE"
F_BEGIN == "F_BEGIN"
F_HOLD == "F_HOLD"
F_KEY1 == "F_KEY1"
F_KEY2 == "F_KEY2"
F_DTX == "F_DTX"
F_PREP == "F_PREP"
F_POST == "F_POST"
F_TXADD == "F_TXADD"
F_DELETE == "F_DELETE"
Faults == {F_NONE, F_BEGIN, F_HOLD, F_KEY1, F_KEY2, F_DTX}
KeyFault(f, i) == (f = F_KEY1 /\ i = 1) \/ (f = F_KEY2 /\ i = 2)

(* ---------------------------- object cache ---------------------------- *)
\* The cache of one xstream: the table of cached objects (ents) with their
\* reference counts, the unreferenced entries in LRU order (idle, oldest
\* first), and the references still held on entries that were evicted
\* while referenced (zref).
EmptyCache ==
    [ents |-> {}, ref |-> [o \in Oids |-> 0], idle |-> <<>>, zref |-> [o \in Oids |-> 0]]

SeqWithout(s, o) == SelectSeq(s, LAMBDA x : x # o)

\* Capacity pressure: unreferenced entries leave in LRU order while the
\* table holds more entries than its capacity.
RECURSIVE lru_shrink(_)
lru_shrink(c) ==
    IF Cardinality(c.ents) <= LruSize \/ c.idle = <<>>
    THEN c
    ELSE lru_shrink([c EXCEPT !.ents = @ \ {Head(c.idle)}, !.idle = Tail(@)])

daos_lru_ref_hold(c, oid) ==
    IF oid \in c.ents
    THEN [c EXCEPT !.ref[oid] = @ + 1, !.idle = SeqWithout(@, oid)]
    ELSE lru_shrink([c EXCEPT !.ents = @ \cup {oid}, !.ref[oid] = 1])

\* A handle is the object id and whether its entry has been evicted.
vos_obj_release(c, h) ==
    IF h.evicted
    THEN [c EXCEPT !.zref[h.oid] = @ - 1]
    ELSE IF c.ref[h.oid] > 1
         THEN [c EXCEPT !.ref[h.oid] = @ - 1]
         ELSE lru_shrink([c EXCEPT !.ref[h.oid] = 0, !.idle = Append(@, h.oid)])

\* vos_obj_evict: the entry leaves the table at once; the references on it
\* stay valid until they are released.
vos_obj_evict(c, oid) ==
    IF oid \in c.ents
    THEN [c EXCEPT !.ents = @ \ {oid}, !.zref[oid] = @ + c.ref[oid],
                   !.ref[oid] = 0, !.idle = SeqWithout(@, oid)]
    ELSE c

\* Mutant of the hold: an object that is not in the cache reads as missing
vos_obj_hold_cold(c, oi, oid, epoch, no_create, fail) ==
    LET found(c1, f) ==
            [rc |-> DER_SUCCESS, cache |-> c1, held |-> TRUE, rest |-> oi \ f, df |-> f]
        prepared(c1, p) ==
            IF p.rc # DER_SUCCESS
            THEN [rc |-> p.rc,
                  cache |-> vos_obj_release(c1, [oid |-> oid, evicted |-> FALSE]),
                  held |-> FALSE, rest |-> oi, df |-> {}]
            ELSE [rc |-> DER_SUCCESS, cache |-> c1, held |-> TRUE,
                  rest |-> p.rest, df |-> {p.rec}]
        referenced(c1) ==
            IF no_create
            THEN found(c1, {r \in dbtree_fetch_ge(oi, oid, epoch) :
                               KeyVisible(r, epoch) /\ oid \in c.ents})
            ELSE prepared(c1, key_tree_prepare(oi, VOS_BTR_OBJ, oid, epoch, TRUE))
    IN  IF fail
        THEN [rc |-> DER_NOMEM, cache |-> c, held |-> FALSE, rest |-> oi, df |-> {}]
        ELSE referenced(daos_lru_ref_hold(c, oid))

\* Mutant of the hold: without create a missing object is an error
vos_obj_hold_nonexist(c, oi, oid, epoch, no_create, fail) ==
    LET found(c1, f) ==
            IF f = {}
            THEN [rc |-> DER_NONEXIST,
                  cache |-> vos_obj_release(c1, [oid |-> oid, evicted |-> FALSE]),
                  held |-> FALSE, rest |-> oi, df |-> {}]
            ELSE [rc |-> DER_SUCCESS, cache |-> c1, held |-> TRUE, rest |-> oi \ f,
                  df |-> f]
        prepared(c1, p) ==
            IF p.rc # DER_SUCCESS
            THEN [rc |-> p.rc,
                  cache |-> vos_obj_release(c1, [oid |-> oid, evicted |-> FALSE]),
                  held |-> FALSE, rest |-> oi, df |-> {}]
            ELSE [rc |-> DER_SUCCESS, cache |-> c1, held |-> TRUE,
                  rest |-> p.rest, df |-> {p.rec}]
        referenced(c1) ==
            IF no_create
            THEN found(c1, {r \in dbtree_fetch_ge(oi, oid, epoch) : KeyVisible(r, epoch)})
            ELSE prepared(c1, key_tree_prepare(oi, VOS_BTR_OBJ, oid, epoch, TRUE))
    IN  IF fail
        THEN [rc |-> DER_NOMEM, cache |-> c, held |-> FALSE, rest |-> oi, df |-> {}]
        ELSE referenced(daos_lru_ref_hold(c, oid))

\* vos_obj_hold: take a reference on the cache entry and bind it to the
\* incarnation of the object that serves the epoch.  With no_create a
\* missing object gives a handle without object record (df = {}).
vos_obj_hold(c, oi, oid, epoch, no_create, fail) ==
    LET found(c1, f) ==
            [rc |-> DER_SUCCESS, cache |-> c1, held |-> TRUE, rest |-> oi \ f, df |-> f]
        prepared(c1, p) ==
            IF p.rc # DER_SUCCESS
            THEN [rc |-> p.rc,
                  cache |-> vos_obj_release(c1, [oid |-> oid, evicted |-> FALSE]),
                  held |-> FALSE, rest |-> oi, df |-> {}]
            ELSE [rc |-> DER_SUCCESS, cache |-> c1, held |-> TRUE,
                  rest |-> p.rest, df |-> {p.rec}]
        referenced(c1) ==
            IF no_create
            THEN found(c1, {r \in dbtree_fetch_ge(oi, oid, epoch) : KeyVisible(r, epoch)})
            ELSE prepared(c1, key_tree_prepare(oi, VOS_BTR_OBJ, oid, epoch, TRUE))
    IN  IF fail
        THEN [rc |-> DER_NOMEM, cache |-> c, held |-> FALSE, rest |-> oi, df |-> {}]
        ELSE referenced(daos_lru_ref_hold(c, oid))

vos_obj_is_empty(df) == df = {} \/ \A r \in df : r.tree = {}

(* ------------------------ transactions (PMDK) ------------------------- *)
\* vos_tx_begin fails when the pool cannot start a transaction.
vos_tx_begin(fail) == IF fail THEN DER_NOMEM ELSE DER_SUCCESS

\* vos_tx_end: commit the working copy when rc is zero, else abort to the
\* snapshot taken at begin.  The trace counts what was done.
vos_tx_end(undo, work, rc) ==
    IF rc = DER_SUCCESS
    THEN [rc |-> rc, pm |-> work, commits |-> 1, aborts |-> 0]
    ELSE [rc |-> rc, pm |-> undo, commits |-> 0, aborts |-> 1]

\* The value of a position nothing was written to
HOLE == 0

(* ------------------------------ update -------------------------------- *)
\* dkey_update / akey_update under a held object record
dkey_update(obj, epoch, dk, ak, lo, hi, val) ==
    LET failed(rc) == [rc |-> rc, obj |-> obj]
        inserted(d, a, v) ==
            IF v.rc # DER_SUCCESS THEN failed(v.rc)
            ELSE [rc |-> DER_SUCCESS,
                  obj |-> [obj EXCEPT !.tree = d.rest \cup
                             {[d.rec EXCEPT !.tree = a.rest \cup
                                 {[a.rec EXCEPT !.recs = v.recs]}]}]]
        akey_update(d, a) ==
            IF a.rc # DER_SUCCESS THEN failed(a.rc)
            ELSE inserted(d, a, rec_insert(a.rec.recs, epoch, lo, hi, val))
        under_dkey(d) ==
            IF d.rc # DER_SUCCESS THEN failed(d.rc)
            ELSE akey_update(d, key_tree_prepare(d.rec.tree, VOS_BTR_AKEY, ak, epoch, TRUE))
    IN  under_dkey(key_tree_prepare(obj.tree, VOS_BTR_DKEY, dk, epoch, TRUE))

\* The I/O handle of an update between vos_update_begin and
\* vos_update_end: the extent to write and the buffer reserved for it,
\* which the caller can write once bio_iod_prep has mapped it.  The
\* descriptor counts the preps that succeeded, the posts issued on it and
\* the posts issued while it was not mapped.
NoIoh == [mapped |-> FALSE, preps |-> 0, posts |-> 0, stray |-> 0]
vos_update_begin(oid, epoch, dk, ak, lo, hi) ==
    [oid |-> oid, epoch |-> epoch, dk |-> dk, ak |-> ak, lo |-> lo, hi |-> hi,
     buf |-> HOLE, mapped |-> FALSE, preps |-> 0, posts |-> 0, stray |-> 0]

bio_iod_prep(ioh, f) ==
    IF f = F_PREP
    THEN [rc |-> DER_NOMEM, ioh |-> ioh]
    ELSE [rc |-> DER_SUCCESS, ioh |-> [ioh EXCEPT !.mapped = TRUE, !.preps = @ + 1]]

\* The copy of the payload into the mapped buffer: bio_iod_copy of the
\* copying pipeline, memcpy of the zero-copy caller
bio_iod_copy(ioh, val) == IF ioh.mapped THEN [ioh EXCEPT !.buf = val] ELSE ioh

bio_iod_post(ioh, f) ==
    LET issued == [ioh EXCEPT !.posts = @ + 1,
                              !.stray = IF ioh.mapped THEN @ ELSE @ + 1]
    IN  IF f = F_POST
        THEN [rc |-> DER_IO, ioh |-> issued]
        ELSE [rc |-> DER_SUCCESS, ioh |-> [issued EXCEPT !.mapped = FALSE]]

\* vos_update_end: with an error from the stages before, give the buffer
\* back and return the error; else one transaction around hold, the key
\* trees and the insert of the buffer.
vos_update_end(pm, c, ioh, err, f) ==
    LET not_begun(rc) ==
            [rc |-> rc, pm |-> pm, cache |-> c, begun |-> 0, commits |-> 0, aborts |-> 0]
        ended(h, e) ==
            [rc |-> e.rc, pm |-> e.pm,
             cache |-> IF h.held
                       THEN vos_obj_release(h.cache, [oid |-> ioh.oid, evicted |-> FALSE])
                       ELSE h.cache,
             begun |-> 1, commits |-> e.commits, aborts |-> e.aborts]
        updated(h, u) ==
            ended(h, vos_tx_end(pm,
                                IF u.rc = DER_SUCCESS
                                THEN [pm EXCEPT !.oi = h.rest \cup {u.obj}] ELSE pm,
                                u.rc))
        held(h) ==
            updated(h, IF h.rc = DER_SUCCESS
                       THEN dkey_update(CHOOSE r \in h.df : TRUE, ioh.epoch, ioh.dk,
                                        ioh.ak, ioh.lo, ioh.hi, ioh.buf)
                       ELSE [rc |-> h.rc, obj |-> {}])
    IN  IF err # DER_SUCCESS
        THEN not_begun(err)
        ELSE IF vos_tx_begin(f = F_BEGIN) # DER_SUCCESS
        THEN not_begun(vos_tx_begin(f = F_BEGIN))
        ELSE held(vos_obj_hold(c, pm.oi, ioh.oid, ioh.epoch, FALSE, f = F_HOLD))

\* Mutant of the update pipeline: the post is issued whether or not the
\* prep succeeded
update_pipeline_post_always(pm, c, oid, epoch, dk, ak, lo, hi, val, f) ==
    LET ioh == vos_update_begin(oid, epoch, dk, ak, lo, hi)
        p == bio_iod_prep(ioh, f)
        q == IF p.rc = DER_SUCCESS
             THEN bio_iod_post(bio_iod_copy(p.ioh, val), f)
             ELSE [rc |-> p.rc, ioh |-> bio_iod_post(p.ioh, f).ioh]
    IN  vos_update_end(pm, c, q.ioh, q.rc, f) @@ [ioh |-> q.ioh]

\* The update pipeline: begin, prep, copy, post, end.  vos_obj_update runs
\* it with bio_iod_copy, the zero-copy caller (io_test_obj_update) runs
\* the same stages and copies the payload itself.
update_pipeline(pm, c, oid, epoch, dk, ak, lo, hi, val, f) ==
    LET ioh == vos_update_begin(oid, epoch, dk, ak, lo, hi)
        p == bio_iod_prep(ioh, f)
        q == IF p.rc = DER_SUCCESS
             THEN bio_iod_post(bio_iod_copy(p.ioh, val), f)
             ELSE p
    IN  vos_update_end(pm, c, q.ioh, q.rc, f) @@ [ioh |-> q.ioh]

vos_obj_update(pm, c, oid, epoch, dk, ak, lo, hi, val, f) ==
    update_pipeline(pm, c, oid, epoch, dk, ak, lo, hi, val, f)

\* Mutant of io_test_obj_update: the zero-copy caller copies nothing
io_test_obj_update_nocopy(pm, c, oid, epoch, dk, ak, lo, hi, val, zc, f) ==
    IF ~zc
    THEN vos_obj_update(pm, c, oid, epoch, dk, ak, lo, hi, val, f)
    ELSE update_pipeline(pm, c, oid, epoch, dk, ak, lo, hi, HOLE, f)

io_test_obj_update(pm, c, oid, epoch, dk, ak, lo, hi, val, zc, f) ==
    IF ~zc
    THEN vos_obj_update(pm, c, oid, epoch, dk, ak, lo, hi, val, f)
    ELSE update_pipeline(pm, c, oid, epoch, dk, ak, lo, hi, val, f)

(* ------------------------------- fetch -------------------------------- *)
\* The key record that serves a reader at epoch E, as a set of at most one
key_lookup(tree, key, E) == {r \in dbtree_fetch_ge(tree, key, E) : KeyVisible(r, E)}

akey_lookup(oi, oid, E, dk, ak) ==
    UNION {UNION {key_lookup(d.tree, ak, E) : d \in key_lookup(o.tree, dk, E)} :
           o \in key_lookup(oi, oid, E)}

\* The entry visible at a position for a reader at E: the one of greatest
\* epoch <= E that covers the position.
rec_visible(recs, E, pos) ==
    LET c == {x \in recs : x.epoch <= E /\ x.lo <= pos /\ pos <= x.hi}
    IN  {x \in c : \A y \in c : y.epoch <= x.epoch}

\* Mutant of the fetch: a missing object, dkey or akey is an error
vos_obj_fetch_strict(oi, oid, E, dk, ak, lo, hi) ==
    LET a == akey_lookup(oi, oid, E, dk, ak)
        at(pos) == UNION {rec_visible(k.recs, E, pos) : k \in a}
        data == [pos \in lo..hi |->
                    IF at(pos) = {} THEN HOLE ELSE (CHOOSE x \in at(pos) : TRUE).val]
    IN  [rc |-> IF a = {} THEN DER_NONEXIST ELSE DER_SUCCESS,
         size |-> IF \E pos \in lo..hi : at(pos) # {} THEN 1 ELSE 0,
         data |-> data]

\* vos_obj_fetch of the extent [lo, hi] of one akey at epoch E: a missing
\* or punched object, dkey or akey reads as empty with record size 0;
\* positions no visible entry covers read as zero.
vos_obj_fetch(oi, oid, E, dk, ak, lo, hi) ==
    LET a == akey_lookup(oi, oid, E, dk, ak)
        at(pos) == UNION {rec_visible(k.recs, E, pos) : k \in a}
        data == [pos \in lo..hi |->
                    IF at(pos) = {} THEN HOLE ELSE (CHOOSE x \in at(pos) : TRUE).val]
    IN  [rc |-> DER_SUCCESS,
         size |-> IF \E pos \in lo..hi : at(pos) # {} THEN 1 ELSE 0,
         data |-> data]

\* vos_fetch_begin: the zero-copy fetch hands the caller the bio_iov list of
\* the range, one per record here; the bio_iov of a position no visible
\* entry covers carries a hole address and no buffer.
bio_addr_is_hole(biov) == biov.hole
vos_fetch_begin(oi, oid, E, dk, ak, lo, hi) ==
    LET a == akey_lookup(oi, oid, E, dk, ak)
        at(pos) == UNION {rec_visible(k.recs, E, pos) : k \in a}
        biov(pos) ==
            IF at(pos) = {}
            THEN [hole |-> TRUE, bi_buf |-> HOLE, bi_data_len |-> 1]
            ELSE [hole |-> FALSE, bi_buf |-> (CHOOSE x \in at(pos) : TRUE).val,
                  bi_data_len |-> 1]
    IN  [rc |-> DER_SUCCESS,
         size |-> IF \E pos \in lo..hi : at(pos) # {} THEN 1 ELSE 0,
         bsgl |-> [i \in 1..(hi - lo + 1) |-> biov(lo + i - 1)]]

\* io_test_obj_fetch into the caller's buffer dst (indexed from the start
\* of the range): vos_obj_fetch copies the range into it; with
\* TF_ZERO_COPY the caller walks the bio_iov list and copies the buffers
\* that are not holes, advancing the offset over the holes, between
\* bio_iod_prep and bio_iod_post; a failed prep goes to vos_fetch_end at
\* once, which returns the error of the stages before.
io_test_obj_fetch(oi, oid, E, dk, ak, lo, hi, zc, dst, f) ==
    LET copied(r) ==
            [rc |-> r.rc, size |-> r.size, ioh |-> NoIoh,
             buf |-> [k \in DOMAIN dst |-> IF lo + k <= hi THEN r.data[lo + k] ELSE dst[k]]]
        walked(b) ==
            [k \in DOMAIN dst |->
                IF lo + k <= hi /\ ~bio_addr_is_hole(b.bsgl[k + 1])
                THEN b.bsgl[k + 1].bi_buf
                ELSE dst[k]]
        ended(b, buf, q) == [rc |-> q.rc, size |-> b.size, ioh |-> q.ioh, buf |-> buf]
        prepped(b, p) ==
            IF p.rc # DER_SUCCESS THEN ended(b, dst, p)
            ELSE ended(b, walked(b), bio_iod_post(p.ioh, f))
        begun(b) ==
            IF b.rc # DER_SUCCESS
            THEN [rc |-> b.rc, size |-> b.size, ioh |-> NoIoh, buf |-> dst]
            ELSE prepped(b, bio_iod_prep(NoIoh, f))
    IN  IF zc
        THEN begun(vos_fetch_begin(oi, oid, E, dk, ak, lo, hi))
        ELSE copied(vos_obj_fetch(oi, oid, E, dk, ak, lo, hi))


(* ------------------------------- punch -------------------------------- *)
\* key_tree_punch as the callers of vos_obj.c see it: the i-th call of the
\* operation may fail on its own (allocation, I/O) and leaves the tree alone
key_tree_punch_at(tree, tclass, key, epoch, f, i) ==
    IF KeyFault(f, i)
    THEN [rc |-> DER_NOMEM, tree |-> tree]
    ELSE key_tree_punch(tree, tclass, key, epoch)

\* Mutant of the akey loop: only the first akey of the list is punched
key_punch_akeys_first(toh, epoch, akeys, i, f) ==
    key_tree_punch_at(toh, VOS_BTR_AKEY, akeys[i], epoch, f, i)

\* The akey loop of key_punch: punch akeys[i..] in order, stop at the first
\* error and keep what the earlier iterations did to the tree.
RECURSIVE key_punch_akeys(_, _, _, _, _)
key_punch_akeys(toh, epoch, akeys, i, f) ==
    LET punched(p) ==
            IF p.rc # DER_SUCCESS
            THEN p
            ELSE key_punch_akeys(p.tree, epoch, akeys, i + 1, f)
    IN  IF i > Len(akeys)
        THEN [rc |-> DER_SUCCESS, tree |-> toh]
        ELSE punched(key_tree_punch_at(toh, VOS_BTR_AKEY, akeys[i], epoch, f, i))

\* Mutant of key_punch: nothing is punched and success is returned
key_punch_nothing(obj, epoch, dkey, akeys, f) == [rc |-> DER_SUCCESS, obj |-> obj]

\* Mutant of key_punch: the dkey is punched one epoch too early
key_punch_early(obj, epoch, dkey, akeys, f) ==
    IF akeys = <<>>
    THEN LET p == key_tree_punch_at(obj.tree, VOS_BTR_DKEY, dkey,
                                    IF epoch > 1 THEN epoch - 1 ELSE epoch, f, 1)
         IN  [rc |-> p.rc, obj |-> [obj EXCEPT !.tree = p.tree]]
    ELSE LET d == key_tree_prepare(obj.tree, VOS_BTR_DKEY, dkey, epoch, TRUE)
         IN  IF d.rc # DER_SUCCESS
             THEN [rc |-> IF d.rc = DER_NONEXIST THEN DER_SUCCESS ELSE d.rc, obj |-> obj]
             ELSE LET l == key_punch_akeys(d.rec.tree, epoch, akeys, 1, f)
                  IN  [rc |-> l.rc,
                       obj |-> [obj EXCEPT !.tree =
                                  d.rest \cup {[d.rec EXCEPT !.tree = l.tree]}]]

\* key_punch: without akeys the dkey is punched in the object's dkey tree;
\* with akeys the dkey is prepared (created when missing) and every akey
\* punched under it.  A dkey already punched at the epoch ends the call
\* with success and nothing done.
key_punch(obj, epoch, dkey, akeys, f) ==
    LET dkey_punched(p) == [rc |-> p.rc, obj |-> [obj EXCEPT !.tree = p.tree]]
        akeys_punched(d, l) ==
            [rc |-> l.rc,
             obj |-> [obj EXCEPT !.tree = d.rest \cup {[d.rec EXCEPT !.tree = l.tree]}]]
        prepared(d) ==
            IF d.rc # DER_SUCCESS
            THEN [rc |-> IF d.rc = DER_NONEXIST THEN DER_SUCCESS ELSE d.rc, obj |-> obj]
            ELSE akeys_punched(d, key_punch_akeys(d.rec.tree, epoch, akeys, 1, f))
    IN  IF akeys = <<>>
        THEN dkey_punched(key_tree_punch_at(obj.tree, VOS_BTR_DKEY, dkey, epoch, f, 1))
        ELSE prepared(key_tree_prepare(obj.tree, VOS_BTR_DKEY, dkey, epoch, TRUE))

\* vos_oi_punch: the object-index form of the key punch
vos_oi_punch(oi, oid, epoch, f) == key_tree_punch_at(oi, VOS_BTR_OBJ, oid, epoch, f, 1)

\* Mutant of obj_punch: the object is evicted but not punched
obj_punch_evict_only(oi, c, oid, epoch, f) ==
    [rc |-> DER_SUCCESS, oi |-> oi, cache |-> vos_obj_evict(c, oid), evicted |-> TRUE]

\* Mutant of obj_punch: the object is evicted also when the punch failed
obj_punch_evict_always(oi, c, oid, epoch, f) ==
    LET p == vos_oi_punch(oi, oid, epoch, f)
    IN  [rc |-> p.rc, oi |-> p.tree, cache |-> vos_obj_evict(c, oid), evicted |-> TRUE]

\* obj_punch: punch the object in the object index and, when that worked,
\* evict the object from the cache, referenced or not.
obj_punch(oi, c, oid, epoch, f) ==
    LET punched(p) ==
            IF p.rc # DER_SUCCESS
            THEN [rc |-> p.rc, oi |-> p.tree, cache |-> c, evicted |-> FALSE]
            ELSE [rc |-> DER_SUCCESS, oi |-> p.tree, cache |-> vos_obj_evict(c, oid),
                  evicted |-> TRUE]
    IN  punched(vos_oi_punch(oi, oid, epoch, f))

\* vos_dtx_prepared fails when the DTX record cannot be made persistent
vos_dtx_prepared(f) == IF f = F_DTX THEN DER_NOMEM ELSE DER_SUCCESS

\* The CoS DTXs are committed by the first transaction of the handle only
cos_pending(use_dth, dth) == use_dth /\ dth.cos_count > 0 /\ dth.cos_done = 0

\* Lines 161-170 of vos_obj_punch: what happens between hold and tx end
punch_held(oi, h, oid, epoch, dkey, akeys, use_dth, f) ==
    LET key_punched(q) ==
            [rc |-> q.rc, oi |-> h.rest \cup {q.obj}, cache |-> h.cache,
             evicted |-> FALSE]
        prepared(k) ==
            IF use_dth /\ k.rc = DER_SUCCESS
            THEN [k EXCEPT !.rc = vos_dtx_prepared(f)]
            ELSE k
        with_obj(obj) ==
            prepared(IF dkey # 0
                     THEN key_punched(key_punch(obj, epoch, dkey, akeys, f))
                     ELSE obj_punch(h.rest \cup {obj}, h.cache, oid, epoch, f))
    IN  IF h.rc # DER_SUCCESS
        THEN [rc |-> h.rc, oi |-> oi, cache |-> h.cache, evicted |-> FALSE]
        ELSE with_obj(CHOOSE r \in h.df : TRUE)

\* Mutant of vos_obj_punch: the transaction is ended as if all went well
vos_obj_punch_commit(pm, c, dth, oid, epoch, dkey, akeys, use_dth, f) ==
    IF vos_tx_begin(f = F_BEGIN) # DER_SUCCESS
    THEN [rc |-> vos_tx_begin(f = F_BEGIN), pm |-> pm, cache |-> c, dth |-> dth,
          begun |-> 0, commits |-> 0, aborts |-> 0, holds |-> 0, releases |-> 0,
          evicted |-> FALSE]
    ELSE
    LET cos == cos_pending(use_dth, dth)
        pm1 == IF cos THEN [pm EXCEPT !.cos = @ + dth.cos_count] ELSE pm
        h == vos_obj_hold(c, pm1.oi, oid, epoch, FALSE, f = F_HOLD)
        k == punch_held(pm1.oi, h, oid, epoch, dkey, akeys, use_dth, f)
        e == vos_tx_end(pm, [pm1 EXCEPT !.oi = k.oi], DER_SUCCESS)
    IN  [rc |-> k.rc, pm |-> e.pm,
         cache |-> IF h.held
                   THEN vos_obj_release(k.cache, [oid |-> oid, evicted |-> k.evicted])
                   ELSE k.cache,
         dth |-> IF cos THEN [dth EXCEPT !.cos_done = 1] ELSE dth,
         begun |-> 1, commits |-> IF k.rc = DER_SUCCESS THEN 1 ELSE 0,
         aborts |-> IF k.rc = DER_SUCCESS THEN 0 ELSE 1,
         holds |-> IF h.held THEN 1 ELSE 0, releases |-> IF h.held THEN 1 ELSE 0,
         evicted |-> k.evicted]

\* vos_obj_punch: punch an object (dkey = 0), a dkey (no akeys) or a list
\* of akeys at an epoch, in one transaction.
vos_obj_punch(pm, c, dth, oid, epoch, dkey, akeys, use_dth, f) ==
    LET not_begun(rc) ==
            [rc |-> rc, pm |-> pm, cache |-> c, dth |-> dth,
             begun |-> 0, commits |-> 0, aborts |-> 0, holds |-> 0, releases |-> 0,
             evicted |-> FALSE]
        ended(cos, h, k, e) ==
            [rc |-> e.rc, pm |-> e.pm,
             cache |-> IF h.held
                       THEN vos_obj_release(k.cache, [oid |-> oid, evicted |-> k.evicted])
                       ELSE k.cache,
             dth |-> IF cos THEN [dth EXCEPT !.cos_done = 1] ELSE dth,
             begun |-> 1, commits |-> e.commits, aborts |-> e.aborts,
             holds |-> IF h.held THEN 1 ELSE 0, releases |-> IF h.held THEN 1 ELSE 0,
             evicted |-> k.evicted]
        punched(cos, pm1, h, k) ==
            ended(cos, h, k, vos_tx_end(pm, [pm1 EXCEPT !.oi = k.oi], k.rc))
        held(cos, pm1, h) ==
            punched(cos, pm1, h,
                    punch_held(pm1.oi, h, oid, epoch, dkey, akeys, use_dth, f))
        cos_committed(cos, pm1) ==
            held(cos, pm1, vos_obj_hold(c, pm1.oi, oid, epoch, FALSE, f = F_HOLD))
        tx_begun(cos) ==
            cos_committed(cos, IF cos THEN [pm EXCEPT !.cos = @ + dth.cos_count] ELSE pm)
    IN  IF vos_tx_begin(f = F_BEGIN) # DER_SUCCESS
        THEN not_begun(vos_tx_begin(f = F_BEGIN))
        ELSE tx_begun(cos_pending(use_dth, dth))

(* --------------------------- key iterators ----------------------------- *)
\* A key tree in key order: by key, then by tree epoch
KeyLess(a, b) == a.key < b.key \/ (a.key = b.key /\ a.epoch < b.epoch)
RECURSIVE SortRecs(_)
SortRecs(tree) ==
    IF tree = {} THEN <<>>
    ELSE LET m == CHOOSE r \in tree : \A q \in tree : q = r \/ KeyLess(r, q)
         IN  <<m>> \o SortRecs(tree \ {m})

\* dbtree iterator cursor: an index in the ordered records, 0 when the
\* probe or the move found nothing (-DER_NONEXIST)
dbtree_iter_probe_first(s) == IF s = <<>> THEN 0 ELSE 1
dbtree_iter_probe_from(s, key, epoch, strict) ==
    LET c == {i \in 1..Len(s) :
                 \/ s[i].key > key
                 \/ s[i].key = key /\ s[i].epoch > epoch
                 \/ ~strict /\ s[i].key = key /\ s[i].epoch = epoch}
    IN  IF c = {} THEN 0 ELSE CHOOSE i \in c : \A j \in c : i <= j
dbtree_iter_next(s, i) == IF i < Len(s) THEN i + 1 ELSE 0

VOS_ITER_DKEY == "VOS_ITER_DKEY"
VOS_ITER_AKEY == "VOS_ITER_AKEY"
VOS_ITER_RECX == "VOS_ITER_RECX"
VOS_ITER_SINGLE == "VOS_ITER_SINGLE"
IT_OPC_NOOP == "IT_OPC_NOOP"
IT_OPC_NEXT == "IT_OPC_NEXT"
IT_OPC_PROBE == "IT_OPC_PROBE"
IT_ERROR == "IT_ERROR"

\* key_iter_fetch: the entry under the cursor
\* A tree call that reports DER_INPROGRESS because of a modification that
\* is not yet committed: which call of the iterator (the fetch of the
\* entry, the load of the dkey and the lookup of the akey of a conditional
\* iteration, a probe or a move of the cursor) and at which position
\* of the cursor.  NoBusy: no call does.
NoBusy == [step |-> "none", pos |-> 0]
Busy(it, step, i) == it.busy = [step |-> step, pos |-> i]

key_iter_fetch(it, i) ==
    LET krec == it.s[i]
    IN  [ie_key |-> krec.key,
         ie_epoch |-> IF krec.punched THEN krec.latest ELSE DAOS_EPOCH_MAX,
         ie_earliest |-> krec.earliest,
         ie_child_type |-> IF it.type = VOS_ITER_AKEY
                           THEN IF krec.bmap = KREC_BF_EVT THEN VOS_ITER_RECX
                                ELSE VOS_ITER_SINGLE
                           ELSE VOS_ITER_AKEY]

\* Mutant of key_iter_match: a punched key is not skipped
key_iter_match_punched(it, i) ==
    LET ent == key_iter_fetch(it, i)
    IN  IF ent.ie_earliest > it.epr_hi
        THEN [opc |-> IT_OPC_PROBE, rc |-> DER_SUCCESS, key |-> ent.ie_key,
              epoch |-> DAOS_EPOCH_MAX]
        ELSE [opc |-> IT_OPC_NOOP, rc |-> DER_SUCCESS, key |-> ent.ie_key,
              epoch |-> ent.ie_epoch]

\* Mutant of key_iter_match: a key created after the range is not skipped
key_iter_match_late(it, i) ==
    LET act(ent, opc, rc, epoch) ==
            [opc |-> opc, rc |-> rc, key |-> ent.ie_key, epoch |-> epoch]
        conditional(ent, d) ==
            IF Busy(it, "prepare", i)
            THEN act(ent, IT_ERROR, DER_INPROGRESS, ent.ie_epoch)
            ELSE IF d.rc # DER_SUCCESS
            THEN act(ent, IT_ERROR, d.rc, ent.ie_epoch)
            ELSE IF Busy(it, "akey", i)
            THEN act(ent, IT_ERROR, DER_INPROGRESS, ent.ie_epoch)
            ELSE IF dbtree_fetch_gt(d.rec.tree, it.akey, it.epr_lo) # {}
            THEN act(ent, IT_OPC_NOOP, DER_SUCCESS, ent.ie_epoch)
            ELSE act(ent, IT_OPC_NEXT, DER_SUCCESS, ent.ie_epoch)
        fetched(ent) ==
            IF ent.ie_epoch <= it.epr_lo
            THEN act(ent, IT_OPC_PROBE, DER_SUCCESS, it.epr_lo)
            ELSE IF it.type = VOS_ITER_AKEY \/ it.akey = 0
            THEN act(ent, IT_OPC_NOOP, DER_SUCCESS, ent.ie_epoch)
            ELSE IF it.epr_lo # it.epr_hi
            THEN act(ent, IT_ERROR, DER_INVAL, ent.ie_epoch)
            ELSE conditional(ent, key_tree_prepare(it.tree, VOS_BTR_DKEY, ent.ie_key,
                                                   ent.ie_epoch, FALSE))
    IN  IF Busy(it, "fetch", i)
        THEN [opc |-> IT_ERROR, rc |-> DER_INPROGRESS, key |-> 0, epoch |-> 0]
        ELSE fetched(key_iter_fetch(it, i))

\* Mutant of key_iter_match: a punched key is left by a probe from the
\* first epoch of the key
key_iter_match_back(it, i) ==
    LET act(ent, opc, rc, epoch) ==
            [opc |-> opc, rc |-> rc, key |-> ent.ie_key, epoch |-> epoch]
        conditional(ent, d) ==
            IF Busy(it, "prepare", i)
            THEN act(ent, IT_ERROR, DER_INPROGRESS, ent.ie_epoch)
            ELSE IF d.rc # DER_SUCCESS
            THEN act(ent, IT_ERROR, d.rc, ent.ie_epoch)
            ELSE IF Busy(it, "akey", i)
            THEN act(ent, IT_ERROR, DER_INPROGRESS, ent.ie_epoch)
            ELSE IF dbtree_fetch_gt(d.rec.tree, it.akey, it.epr_lo) # {}
            THEN act(ent, IT_OPC_NOOP, DER_SUCCESS, ent.ie_epoch)
            ELSE act(ent, IT_OPC_NEXT, DER_SUCCESS, ent.ie_epoch)
        fetched(ent) ==
            IF ent.ie_earliest > it.epr_hi
            THEN act(ent, IT_OPC_PROBE, DER_SUCCESS, DAOS_EPOCH_MAX)
            ELSE IF ent.ie_epoch <= it.epr_lo
            THEN act(ent, IT_OPC_PROBE, DER_SUCCESS, 0)
            ELSE IF it.type = VOS_ITER_AKEY \/ it.akey = 0
            THEN act(ent, IT_OPC_NOOP, DER_SUCCESS, ent.ie_epoch)
            ELSE IF it.epr_lo # it.epr_hi
            THEN act(ent, IT_ERROR, DER_INVAL, ent.ie_epoch)
            ELSE conditional(ent, key_tree_prepare(it.tree, VOS_BTR_DKEY, ent.ie_key,
                                                   ent.ie_epoch, FALSE))
    IN  IF Busy(it, "fetch", i)
        THEN [opc |-> IT_ERROR, rc |-> DER_INPROGRESS, key |-> 0, epoch |-> 0]
        ELSE fetched(key_iter_fetch(it, i))

\* key_iter_match: does the entry under the cursor match the iterator's
\* epoch range and akey condition; if not, where to go next
key_iter_match(it, i) ==
    LET act(ent, opc, rc, epoch) ==
            [opc |-> opc, rc |-> rc, key |-> ent.ie_key, epoch |-> epoch]
        conditional(ent, d) ==
            IF Busy(it, "prepare", i)
            THEN act(ent, IT_ERROR, DER_INPROGRESS, ent.ie_epoch)
            ELSE IF d.rc # DER_SUCCESS
            THEN act(ent, IT_ERROR, d.rc, ent.ie_epoch)
            ELSE IF Busy(it, "akey", i)
            THEN act(ent, IT_ERROR, DER_INPROGRESS, ent.ie_epoch)
            ELSE IF dbtree_fetch_gt(d.rec.tree, it.akey, it.epr_lo) # {}
            THEN act(ent, IT_OPC_NOOP, DER_SUCCESS, ent.ie_epoch)
            ELSE act(ent, IT_OPC_NEXT, DER_SUCCESS, ent.ie_epoch)
        fetched(ent) ==
            IF ent.ie_earliest > it.epr_hi
            THEN act(ent, IT_OPC_PROBE, DER_SUCCESS, DAOS_EPOCH_MAX)
            ELSE IF ent.ie_epoch <= it.epr_lo
            THEN act(ent, IT_OPC_PROBE, DER_SUCCESS, it.epr_lo)
            ELSE IF it.type = VOS_ITER_AKEY \/ it.akey = 0
            THEN act(ent, IT_OPC_NOOP, DER_SUCCESS, ent.ie_epoch)
            ELSE IF it.epr_lo # it.epr_hi
            THEN act(ent, IT_ERROR, DER_INVAL, ent.ie_epoch)
            ELSE conditional(ent, key_tree_prepare(it.tree, VOS_BTR_DKEY, ent.ie_key,
                                                   ent.ie_epoch, FALSE))
    IN  IF Busy(it, "fetch", i)
        THEN [opc |-> IT_ERROR, rc |-> DER_INPROGRESS, key |-> 0, epoch |-> 0]
        ELSE fetched(key_iter_fetch(it, i))

\* Mutant of key_iter_match_probe: an entry whose check reports
\* DER_INPROGRESS is passed over
RECURSIVE key_iter_match_probe_skip(_, _)
key_iter_match_probe_skip(it, i) ==
    LET moved(n) ==
            IF n = 0 THEN [rc |-> DER_NONEXIST, pos |-> 0]
            ELSE key_iter_match_probe_skip(it, n)
        matched(m) ==
            CASE m.opc = IT_ERROR /\ m.rc # DER_INPROGRESS -> [rc |-> m.rc, pos |-> i]
              [] m.opc = IT_OPC_NOOP -> [rc |-> DER_SUCCESS, pos |-> i]
              [] m.opc = IT_OPC_PROBE ->
                    IF Busy(it, "probe", i) THEN [rc |-> DER_INPROGRESS, pos |-> i]
                    ELSE moved(dbtree_iter_probe_from(it.s, m.key, m.epoch, TRUE))
              [] OTHER ->
                    IF Busy(it, "next", i) THEN [rc |-> DER_INPROGRESS, pos |-> i]
                    ELSE moved(dbtree_iter_next(it.s, i))
    IN  matched(key_iter_match(it, i))

\* key_iter_match_probe: walk the tree from the cursor until an entry matches
RECURSIVE key_iter_match_probe(_, _)
key_iter_match_probe(it, i) ==
    LET moved(n) ==
            IF n = 0 THEN [rc |-> DER_NONEXIST, pos |-> 0]
            ELSE key_iter_match_probe(it, n)
        matched(m) ==
            CASE m.opc = IT_ERROR -> [rc |-> m.rc, pos |-> i]
              [] m.opc = IT_OPC_NOOP -> [rc |-> DER_SUCCESS, pos |-> i]
              [] m.opc = IT_OPC_PROBE ->
                    IF Busy(it, "probe", i) THEN [rc |-> DER_INPROGRESS, pos |-> i]
                    ELSE moved(dbtree_iter_probe_from(it.s, m.key, m.epoch, TRUE))
              [] OTHER ->
                    IF Busy(it, "next", i) THEN [rc |-> DER_INPROGRESS, pos |-> i]
                    ELSE moved(dbtree_iter_next(it.s, i))
    IN  matched(key_iter_match(it, i))

\* key_iter_probe: from the first record, or from the anchor (a record's
\* key and tree epoch) when one is given
NoAnchor == [key |-> 0, epoch |-> 0]
key_iter_probe(it, anchor) ==
    LET probed(i) ==
            IF i = 0 THEN [rc |-> DER_NONEXIST, pos |-> 0]
            ELSE key_iter_match_probe(it, i)
    IN  IF Busy(it, "probe", 0) THEN [rc |-> DER_INPROGRESS, pos |-> 0]
        ELSE probed(IF anchor = NoAnchor THEN dbtree_iter_probe_first(it.s)
                    ELSE dbtree_iter_probe_from(it.s, anchor.key, anchor.epoch, FALSE))

\* Mutant of key_iter_next: the next record is returned as it comes
key_iter_next_raw(it, i) ==
    LET n == dbtree_iter_next(it.s, i)
    IN  IF n = 0 THEN [rc |-> DER_NONEXIST, pos |-> 0]
        ELSE [rc |-> DER_SUCCESS, pos |-> n]

key_iter_next(it, i) ==
    LET moved(n) ==
            IF n = 0 THEN [rc |-> DER_NONEXIST, pos |-> 0]
            ELSE key_iter_match_probe(it, n)
    IN  IF Busy(it, "next", i) THEN [rc |-> DER_INPROGRESS, pos |-> i]
        ELSE moved(dbtree_iter_next(it.s, i))

\* The iterator over a key tree
key_iter(tree, type, epr_lo, epr_hi, akey) ==
    [tree |-> tree, s |-> SortRecs(tree), type |-> type, epr_lo |-> epr_lo,
     epr_hi |-> epr_hi, akey |-> akey, busy |-> NoBusy]

\* vos_obj_iter_fini: the object is released if the iterator holds one
vos_obj_iter_fini(c, oid, held) ==
    IF held THEN vos_obj_release(c, [oid |-> oid, evicted |-> FALSE]) ELSE c

\* vos_obj_iter_prep for a dkey or an akey iterator: the object is held
\* without create at the upper epoch; an empty object has nothing to
\* iterate; the akey iterator loads the akey tree of its dkey at the lower
\* epoch.  A failed prepare finishes the iterator.
vos_obj_iter_prep(c, oi, type, oid, dkey, akey, epr_lo, epr_hi) ==
    LET failed(h, rc) ==
            [rc |-> rc, it |-> key_iter({}, type, epr_lo, epr_hi, akey),
             cache |-> vos_obj_iter_fini(h.cache, oid, h.held), df |-> {}]
        prepared(h, tree) ==
            [rc |-> DER_SUCCESS, it |-> key_iter(tree, type, epr_lo, epr_hi, akey),
             cache |-> h.cache, df |-> h.df]
        akey_iter_prepare(h, d) ==
            IF d.rc # DER_SUCCESS THEN failed(h, d.rc) ELSE prepared(h, d.rec.tree)
        with_obj(h, obj) ==
            IF type = VOS_ITER_DKEY
            THEN prepared(h, obj.tree)
            ELSE akey_iter_prepare(h, key_tree_prepare(obj.tree, VOS_BTR_DKEY, dkey,
                                                       epr_lo, FALSE))
        held(h) ==
            IF vos_obj_is_empty(h.df)
            THEN failed(h, DER_NONEXIST)
            ELSE with_obj(h, CHOOSE r \in h.df : TRUE)
    IN  held(vos_obj_hold(c, oi, oid, epr_hi, TRUE, FALSE))

\* The caller's loop: probe, then fetch and next until the iterator
\* reports an error; the keys in the order returned and the last status
RECURSIVE iter_collect(_, _, _)
iter_collect(it, r, keys) ==
    IF r.rc # DER_SUCCESS
    THEN [rc |-> r.rc, keys |-> keys]
    ELSE iter_collect(it, key_iter_next(it, r.pos),
                      Append(keys, key_iter_fetch(it, r.pos).ie_key))

vos_iterate_keys(oi, type, oid, dkey, akey, epr_lo, epr_hi) ==
    LET prepared(p) ==
            IF p.rc # DER_SUCCESS
            THEN [rc |-> p.rc, keys |-> <<>>]
            ELSE iter_collect(p.it, key_iter_probe(p.it, NoAnchor), <<>>)
    IN  prepared(vos_obj_iter_prep(EmptyCache, oi, type, oid, dkey, akey, epr_lo, epr_hi))

(* ----------------------- single-value iterator ------------------------ *)
\* The epoch expressions of an iterator and the probe opcodes of a tree
VOS_IT_EPC_LE == "VOS_IT_EPC_LE"
VOS_IT_EPC_GE == "VOS_IT_EPC_GE"
VOS_IT_EPC_RE == "VOS_IT_EPC_RE"
VOS_IT_EPC_RR == "VOS_IT_EPC_RR"
VOS_IT_EPC_EQ == "VOS_IT_EPC_EQ"
EpcExprs == {VOS_IT_EPC_LE, VOS_IT_EPC_GE, VOS_IT_EPC_RE, VOS_IT_EPC_RR, VOS_IT_EPC_EQ}
BTR_PROBE_FIRST == "BTR_PROBE_FIRST"
BTR_PROBE_LAST == "BTR_PROBE_LAST"
BTR_PROBE_EQ == "BTR_PROBE_EQ"
BTR_PROBE_GE == "BTR_PROBE_GE"
BTR_PROBE_LE == "BTR_PROBE_LE"

\* dbtree_iter_probe on a single-value tree, whose key is the epoch and
\* whose order is by ascending epoch: the epoch of the entry the cursor
\* lands on, 0 when there is none (-DER_NONEXIST)
dbtree_iter_probe(recs, opc, epoch) ==
    LET all == {x.epoch : x \in recs}
        c == CASE opc \in {BTR_PROBE_FIRST, BTR_PROBE_LAST} -> all
               [] opc = BTR_PROBE_EQ -> {e \in all : e = epoch}
               [] opc = BTR_PROBE_GE -> {e \in all : e >= epoch}
               [] OTHER -> {e \in all : e <= epoch}
    IN  IF c = {} THEN 0
        ELSE IF opc \in {BTR_PROBE_LAST, BTR_PROBE_LE}
        THEN CHOOSE e \in c : \A d \in c : d <= e
        ELSE CHOOSE e \in c : \A d \in c : e <= d

\* singv_iter_probe_fetch: probe by the epoch of the entry and fetch what
\* the cursor lands on
singv_iter_probe_fetch(it, opc, epoch) ==
    LET probed(cur) ==
            IF cur = 0 THEN [rc |-> DER_NONEXIST, cur |-> 0]
            ELSE [rc |-> DER_SUCCESS, cur |-> cur]
    IN  probed(dbtree_iter_probe(it.recs, opc, epoch))

\* Mutant of singv_iter_probe_epr: the entry is taken as it comes
singv_iter_probe_epr_any(it, epoch) == [rc |-> DER_SUCCESS, cur |-> epoch]

\* One pass of the loop of singv_iter_probe_epr: the entry under the
\* cursor (its epoch) is matched against the epoch range by the epoch
\* expression; IT_OPC_NOOP ends the loop with rc, any other opcode is the
\* probe to make before the next pass
singv_iter_epr_match(it, epoch) ==
    LET done(rc) == [rc |-> rc, opc |-> IT_OPC_NOOP, epoch |-> epoch]
        again(opc, e) == [rc |-> DER_SUCCESS, opc |-> opc, epoch |-> e]
    IN  CASE it.expr = VOS_IT_EPC_EQ ->
                IF epoch > it.epr_hi THEN done(DER_NONEXIST)
                ELSE IF epoch < it.epr_lo THEN again(BTR_PROBE_EQ, it.epr_lo)
                ELSE done(DER_SUCCESS)
          [] it.expr = VOS_IT_EPC_RE ->
                IF epoch > it.epr_hi THEN done(DER_NONEXIST)
                ELSE IF epoch < it.epr_lo THEN again(BTR_PROBE_GE, it.epr_lo)
                ELSE done(DER_SUCCESS)
          [] it.expr = VOS_IT_EPC_RR ->
                IF epoch < it.epr_lo THEN done(DER_NONEXIST)
                ELSE IF epoch > it.epr_hi THEN again(BTR_PROBE_LE, it.epr_hi)
                ELSE done(DER_SUCCESS)
          [] it.expr = VOS_IT_EPC_GE ->
                IF epoch < it.epr_lo THEN again(BTR_PROBE_GE, it.epr_lo)
                ELSE done(DER_SUCCESS)
          [] it.expr = VOS_IT_EPC_LE ->
                IF epoch > it.epr_lo THEN again(BTR_PROBE_LE, it.epr_lo)
                ELSE done(DER_SUCCESS)
          [] OTHER -> done(DER_INVAL)

\* singv_iter_probe_epr: match the entry under the cursor and probe again
\* while it does not match
RECURSIVE singv_iter_probe_epr(_, _)
singv_iter_probe_epr(it, epoch) ==
    LET fetched(r) ==
            IF r.rc # DER_SUCCESS THEN r ELSE singv_iter_probe_epr(it, r.cur)
        matched(m) ==
            IF m.opc = IT_OPC_NOOP THEN [rc |-> m.rc, cur |-> epoch]
            ELSE fetched(singv_iter_probe_fetch(it, m.opc, m.epoch))
    IN  matched(singv_iter_epr_match(it, epoch))

\* singv_iter_probe: from the first entry (the last under RR), or from
\* the anchor (an entry's epoch, 0 for none); an anchor that is found is
\* the answer, anything else goes through singv_iter_probe_epr
singv_iter_probe(it, anchor) ==
    LET opc == IF it.expr = VOS_IT_EPC_RR
               THEN IF anchor = 0 THEN BTR_PROBE_LAST ELSE BTR_PROBE_LE
               ELSE IF anchor = 0 THEN BTR_PROBE_FIRST ELSE BTR_PROBE_GE
        probed(cur) ==
            IF cur = 0 THEN [rc |-> DER_NONEXIST, cur |-> 0]
            ELSE IF anchor # 0 /\ cur = anchor THEN [rc |-> DER_SUCCESS, cur |-> cur]
            ELSE singv_iter_probe_epr(it, cur)
    IN  probed(dbtree_iter_probe(it.recs, opc, anchor))

\* Mutant of singv_iter_next: the neighbour is returned as it comes
singv_iter_next_raw(it, cur) ==
    singv_iter_probe_fetch(it,
        IF it.expr = VOS_IT_EPC_RR THEN BTR_PROBE_LE ELSE BTR_PROBE_GE,
        IF it.expr = VOS_IT_EPC_RE THEN cur + 1
        ELSE IF it.expr = VOS_IT_EPC_RR THEN cur - 1 ELSE DAOS_EPOCH_MAX)

\* singv_iter_next: from the entry under the cursor one epoch up (RE), one
\* epoch down (RR) or to the end (the other expressions), then match
singv_iter_next(it, cur) ==
    LET epoch == IF it.expr = VOS_IT_EPC_RE THEN cur + 1
                 ELSE IF it.expr = VOS_IT_EPC_RR THEN cur - 1
                 ELSE DAOS_EPOCH_MAX
        opc == IF it.expr = VOS_IT_EPC_RR THEN BTR_PROBE_LE ELSE BTR_PROBE_GE
        fetched(r) ==
            IF r.rc # DER_SUCCESS THEN r ELSE singv_iter_probe_epr(it, r.cur)
    IN  fetched(singv_iter_probe_fetch(it, opc, epoch))

\* singv_iter_prepare: the single-value tree of the akey under the dkey,
\* both looked up at the upper epoch without create
singv_iter_prepare(obj, dkey, akey, epr_hi) ==
    LET under_akey(a) ==
            IF a.rc # DER_SUCCESS THEN [rc |-> a.rc, recs |-> {}]
            ELSE [rc |-> DER_SUCCESS, recs |-> a.rec.recs]
        under_dkey(d) ==
            IF d.rc # DER_SUCCESS THEN [rc |-> d.rc, recs |-> {}]
            ELSE under_akey(key_tree_prepare(d.rec.tree, VOS_BTR_AKEY, akey, epr_hi, FALSE))
    IN  under_dkey(key_tree_prepare(obj.tree, VOS_BTR_DKEY, dkey, epr_hi, FALSE))

\* vos_obj_iter_prep for VOS_ITER_SINGLE: the object is held without
\* create at the upper epoch and stays held while the iterator is open;
\* an empty object has nothing to iterate; a failed prepare finishes the
\* iterator.
vos_singv_iter_prep(c, oi, oid, dkey, akey, epr_hi) ==
    LET prepared(h, p) ==
            IF p.rc # DER_SUCCESS
            THEN [rc |-> p.rc, recs |-> {},
                  cache |-> vos_obj_iter_fini(h.cache, oid, h.held)]
            ELSE [rc |-> DER_SUCCESS, recs |-> p.recs, cache |-> h.cache]
        held(h) ==
            IF vos_obj_is_empty(h.df)
            THEN [rc |-> DER_NONEXIST, recs |-> {},
                  cache |-> vos_obj_iter_fini(h.cache, oid, h.held)]
            ELSE prepared(h, singv_iter_prepare(CHOOSE r \in h.df : TRUE, dkey, akey,
                                                epr_hi))
    IN  held(vos_obj_hold(c, oi, oid, epr_hi, TRUE, FALSE))

(* ------------------------------ key query ------------------------------ *)
DAOS_GET_DKEY == "DAOS_GET_DKEY"
DAOS_GET_AKEY == "DAOS_GET_AKEY"
DAOS_GET_MAX == "DAOS_GET_MAX"
DAOS_GET_MIN == "DAOS_GET_MIN"

\* The keys of a key tree that a reader at E sees
LiveKeys(tree, E) == {k \in {r.key : r \in tree} : key_lookup(tree, k, E) # {}}
PickKey(keys, flags) ==
    IF DAOS_GET_MAX \in flags
    THEN CHOOSE k \in keys : \A j \in keys : j <= k
    ELSE CHOOSE k \in keys : \A j \in keys : k <= j

\* Mutant of the query: the key records are taken whether punched or not
vos_obj_query_key_raw(oi, oid, flags, E, dkey) ==
    LET none == [rc |-> DER_NONEXIST, dkey |-> 0, akey |-> 0]
        obj == {o \in oi : o.key = oid}
        dkeys == {d.key : d \in UNION {o.tree : o \in obj}}
        akeys(dk) == {a.key : a \in UNION {d.tree : d \in
                         {x \in UNION {o.tree : o \in obj} : x.key = dk}}}
    IN  IF DAOS_GET_DKEY \in flags
        THEN IF dkeys = {} THEN none
             ELSE [rc |-> DER_SUCCESS, dkey |-> PickKey(dkeys, flags), akey |-> 0]
        ELSE IF akeys(dkey) = {} THEN none
             ELSE [rc |-> DER_SUCCESS, dkey |-> dkey, akey |-> PickKey(akeys(dkey), flags)]

\* Mutant of the query: with both key flags the extreme dkey is taken
\* whether or not an akey is left under it
vos_obj_query_key_nofallback(oi, oid, flags, E, dkey) ==
    LET none == [rc |-> DER_NONEXIST, dkey |-> 0, akey |-> 0]
        obj == UNION {o.tree : o \in key_lookup(oi, oid, E)}
        under(dk) == UNION {d.tree : d \in key_lookup(obj, dk, E)}
        joint == {dk \in LiveKeys(obj, E) : LiveKeys(under(dk), E) # {}}
    IN  IF (DAOS_GET_MAX \in flags) = (DAOS_GET_MIN \in flags)
           \/ flags \cap {DAOS_GET_DKEY, DAOS_GET_AKEY} = {}
        THEN [rc |-> DER_INVAL, dkey |-> 0, akey |-> 0]
        ELSE IF DAOS_GET_AKEY \notin flags
        THEN IF LiveKeys(obj, E) = {} THEN none
             ELSE [rc |-> DER_SUCCESS, dkey |-> PickKey(LiveKeys(obj, E), flags),
                   akey |-> 0]
        ELSE IF DAOS_GET_DKEY \notin flags
        THEN IF LiveKeys(under(dkey), E) = {} THEN none
             ELSE [rc |-> DER_SUCCESS, dkey |-> dkey,
                   akey |-> PickKey(LiveKeys(under(dkey), E), flags)]
        ELSE IF LiveKeys(obj, E) = {} THEN none
             ELSE IF LiveKeys(under(PickKey(LiveKeys(obj, E), flags)), E) = {} THEN none
             ELSE [rc |-> DER_SUCCESS, dkey |-> PickKey(LiveKeys(obj, E), flags),
                   akey |-> PickKey(LiveKeys(under(PickKey(LiveKeys(obj, E), flags)), E),
                                    flags)]

\* vos_obj_query_key without DAOS_GET_RECX: the smallest or the greatest
\* dkey of the object that a reader at E sees (DAOS_GET_DKEY), the
\* smallest or the greatest such akey under the dkey given
\* (DAOS_GET_AKEY), or with both flags the akey under the first dkey, in
\* that direction, that has one.  Exactly one of DAOS_GET_MAX and
\* DAOS_GET_MIN must be given.
vos_obj_query_key(oi, oid, flags, E, dkey) ==
    LET none == [rc |-> DER_NONEXIST, dkey |-> 0, akey |-> 0]
        obj == UNION {o.tree : o \in key_lookup(oi, oid, E)}
        under(dk) == UNION {d.tree : d \in key_lookup(obj, dk, E)}
        joint == {dk \in LiveKeys(obj, E) : LiveKeys(under(dk), E) # {}}
    IN  IF (DAOS_GET_MAX \in flags) = (DAOS_GET_MIN \in flags)
           \/ flags \cap {DAOS_GET_DKEY, DAOS_GET_AKEY} = {}
        THEN [rc |-> DER_INVAL, dkey |-> 0, akey |-> 0]
        ELSE IF DAOS_GET_AKEY \notin flags
        THEN IF LiveKeys(obj, E) = {} THEN none
             ELSE [rc |-> DER_SUCCESS, dkey |-> PickKey(LiveKeys(obj, E), flags),
                   akey |-> 0]
        ELSE IF DAOS_GET_DKEY \notin flags
        THEN IF LiveKeys(under(dkey), E) = {} THEN none
             ELSE [rc |-> DER_SUCCESS, dkey |-> dkey,
                   akey |-> PickKey(LiveKeys(under(dkey), E), flags)]
        ELSE IF joint = {} THEN none
             ELSE [rc |-> DER_SUCCESS, dkey |-> PickKey(joint, flags),
                   akey |-> PickKey(LiveKeys(under(PickKey(joint, flags)), E), flags)]

(* --------------------------- nested iterators -------------------------- *)
F_ALLOC == "F_ALLOC"
F_OPEN == "F_OPEN"
F_ITER == "F_ITER"
IterTypes == {VOS_ITER_DKEY, VOS_ITER_AKEY, VOS_ITER_RECX, VOS_ITER_SINGLE}

\* The three levels of the stack: dkeys, akeys, values
Levels == 1..3
\* An iterator of the stack: its type, whether the generic layer prepared
\* it from a parent (it_from_parent), the object it points to (it_obj, 0
\* for NULL), its tree cursor, and how many nested iterators it has
NoNest ==
    [open |-> FALSE, type |-> "", from_parent |-> FALSE, obj |-> 0,
     it |-> key_iter({}, "", 0, 0, 0), pos |-> 0, nchild |-> 0]

\* key_iter_fetch_root: the subtree of the record under the parent's
\* cursor, with the epoch range limited to the bounds of this key
key_iter_fetch_root(p, type) ==
    LET none == [rc |-> DER_NONEXIST, tree |-> {}, epr_lo |-> 0, epr_hi |-> 0, obj |-> 0]
        root(krec, bmap) ==
            IF type = VOS_ITER_RECX /\ bmap # KREC_BF_EVT THEN none
            ELSE IF type # VOS_ITER_RECX /\ bmap # KREC_BF_BTR THEN none
            ELSE [rc |-> DER_SUCCESS,
                  tree |-> IF p.type = VOS_ITER_DKEY THEN krec.tree ELSE {},
                  epr_lo |-> Max(p.it.epr_lo, krec.earliest),
                  epr_hi |-> Min(p.it.epr_hi, krec.latest),
                  obj |-> 0]
    IN  IF p.pos = 0 THEN none
        ELSE root(p.it.s[p.pos],
                  IF p.type = VOS_ITER_DKEY THEN KREC_BF_BTR ELSE p.it.s[p.pos].bmap)

\* vos_obj_iter_nested_tree_fetch: which iterator types nest in which,
\* and the parent's object handed to the child
vos_obj_iter_nested_tree_fetch(p, type) ==
    LET inval == [rc |-> DER_INVAL, tree |-> {}, epr_lo |-> 0, epr_hi |-> 0, obj |-> 0]
        fetched(info) ==
            IF info.rc # DER_SUCCESS THEN info ELSE [info EXCEPT !.obj = p.obj]
    IN  IF p.type \in {VOS_ITER_RECX, VOS_ITER_SINGLE} THEN inval
        ELSE IF p.type = VOS_ITER_DKEY /\ type # VOS_ITER_AKEY THEN inval
        ELSE IF p.type = VOS_ITER_AKEY /\ type \notin {VOS_ITER_RECX, VOS_ITER_SINGLE}
        THEN inval
        ELSE fetched(key_iter_fetch_root(p, type))

\* vos_obj_iter_nested_prep for an akey, a record extent or a single
\* value iterator: the object of the parent is taken over as it is; the
\* allocation, the opening of the subtree and the tree iterator can fail
vos_obj_iter_nested_prep(type, info, f) ==
    LET failed(rc) == [rc |-> rc, iter |-> NoNest]
    IN  IF f = F_ALLOC THEN failed(DER_NOMEM)
        ELSE IF f = F_OPEN THEN failed(DER_NO_HDL)
        ELSE IF f = F_ITER THEN failed(DER_NOMEM)
        ELSE [rc |-> DER_SUCCESS,
              iter |-> [open |-> TRUE, type |-> type, from_parent |-> FALSE,
                        obj |-> info.obj,
                        it |-> key_iter(info.tree, type, info.epr_lo, info.epr_hi, 0),
                        pos |-> 0, nchild |-> 0]]

\* Mutant of the release test: every iterator releases the object it
\* points to
iter_owns_obj_always(iter) == iter.obj # 0

\* The test of vos_obj_iter_fini: the object is released unless it was
\* borrowed from the parent iterator
iter_owns_obj(iter) ==
    iter.obj # 0 /\ (iter.type = VOS_ITER_DKEY \/ ~iter.from_parent)

\* vos_iter_nested_prepare of the generic layer: the parent fetches the
\* subtree, the child is prepared from it, marked as coming from a parent,
\* and counted on the parent
vos_iter_nested_prepare(p, type, f) ==
    LET prepared(r) ==
            IF r.rc # DER_SUCCESS THEN [rc |-> r.rc, iter |-> NoNest, parent |-> p]
            ELSE [rc |-> DER_SUCCESS, iter |-> [r.iter EXCEPT !.from_parent = TRUE],
                  parent |-> [p EXCEPT !.nchild = @ + 1]]
        fetched(info) ==
            IF info.rc # DER_SUCCESS THEN [rc |-> info.rc, iter |-> NoNest, parent |-> p]
            ELSE prepared(vos_obj_iter_nested_prep(type, info, f))
    IN  fetched(vos_obj_iter_nested_tree_fetch(p, type))

\* Mutant of the generic finish: a parent is finished whether or not
\* nested iterators are open on it
vos_iter_finish_unchecked(c, iter) ==
    [rc |-> DER_SUCCESS, iter |-> NoNest,
     cache |-> vos_obj_iter_fini(c, iter.obj, iter_owns_obj(iter))]

\* vos_iter_finish of the generic layer: finishing an iterator that still
\* has nested iterators is refused; otherwise the iterator is finished by
\* vos_obj_iter_fini
vos_iter_finish(c, iter) ==
    IF iter.nchild > 0
    THEN [rc |-> DER_INVAL, iter |-> iter, cache |-> c]
    ELSE [rc |-> DER_SUCCESS, iter |-> NoNest,
          cache |-> vos_obj_iter_fini(c, iter.obj, iter_owns_obj(iter))]

(* ----------------------- copy out of an iterator ------------------------ *)
\* The caller's buffer: its size, the length of what is in it, and what
\* is in it (0: what the caller left there)
NoIov == [iov_buf_len |-> 0, iov_len |-> 0, data |-> 0]
\* A key of the model is as many bytes long as its number says
KeyLen(key) == key

\* key_iter_copy: the key of the entry is copied if the buffer takes it
key_iter_copy(ent, iov_out) ==
    IF ent.ie_key_len > iov_out.iov_buf_len
    THEN [rc |-> DER_OVERFLOW, iov |-> iov_out]
    ELSE [rc |-> DER_SUCCESS,
          iov |-> [iov_out EXCEPT !.iov_len = ent.ie_key_len, !.data = ent.ie_key]]

\* recx_iter_copy: nothing is copied for a punched record; the data of
\* the entry is read into the buffer if the buffer takes it
recx_iter_copy(ent, iov_out) ==
    IF bio_addr_is_hole(ent.ie_biov)
    THEN [rc |-> DER_SUCCESS, iov |-> iov_out]
    ELSE IF iov_out.iov_buf_len < ent.ie_biov.bi_data_len
    THEN [rc |-> DER_OVERFLOW, iov |-> iov_out]
    ELSE [rc |-> DER_SUCCESS,
          iov |-> [iov_out EXCEPT !.iov_len = ent.ie_biov.bi_data_len,
                                  !.data = ent.ie_biov.bi_buf]]

(* ------------------------- object attributes -------------------------- *)
VOS_OI_PUNCHED == "VOS_OI_PUNCHED"
VOS_OI_REMOVED == "VOS_OI_REMOVED"
VOS_OI_FAILED == "VOS_OI_FAILED"
\* An attribute bit without a name, the first one io_set_attribute_test sets
OI_BIT_0x20 == "0x20"

umem_tx_add_ptr(f) == IF f = F_TXADD THEN DER_NOMEM ELSE DER_SUCCESS

\* The helper with a clear that drops every bit of the object
vos_oi_set_attr_helper_wipe(pm, c, oid, epoch, attr, set, f) ==
    LET not_begun(rc) ==
            [rc |-> rc, pm |-> pm, cache |-> c, begun |-> 0,
             commits |-> 0, aborts |-> 0, holds |-> 0, releases |-> 0,
             null_release |-> TRUE]
        ended(h, e) ==
            [rc |-> e.rc, pm |-> e.pm,
             cache |-> IF h.held
                       THEN vos_obj_release(h.cache, [oid |-> oid, evicted |-> FALSE])
                       ELSE h.cache,
             begun |-> 1, commits |-> e.commits, aborts |-> e.aborts,
             holds |-> IF h.held THEN 1 ELSE 0, releases |-> IF h.held THEN 1 ELSE 0,
             null_release |-> ~h.held]
        bits(obj) == IF set THEN obj.attr \cup attr ELSE {}
        work(h, obj, rc) ==
            IF rc = DER_SUCCESS
            THEN [pm EXCEPT !.oi = h.rest \cup
                    {vos_df_ts_update([obj EXCEPT !.attr = bits(obj)], epoch, epoch)}]
            ELSE [pm EXCEPT !.oi = h.rest \cup {obj}]
        added(h, rc) ==
            ended(h, vos_tx_end(pm,
                                IF h.rc = DER_SUCCESS
                                THEN work(h, CHOOSE r \in h.df : TRUE, rc)
                                ELSE pm,
                                rc))
        held(h) == added(h, IF h.rc # DER_SUCCESS THEN h.rc ELSE umem_tx_add_ptr(f))
    IN  IF vos_tx_begin(f = F_BEGIN) # DER_SUCCESS
        THEN not_begun(vos_tx_begin(f = F_BEGIN))
        ELSE held(vos_obj_hold(c, pm.oi, oid, epoch, FALSE, f = F_HOLD))

\* vos_oi_set_attr_helper: set or clear attribute bits of the object at
\* an epoch, in one transaction.  The object is released on every exit,
\* also on the exits that hold none (null_release).
vos_oi_set_attr_helper(pm, c, oid, epoch, attr, set, f) ==
    LET not_begun(rc) ==
            [rc |-> rc, pm |-> pm, cache |-> c, begun |-> 0,
             commits |-> 0, aborts |-> 0, holds |-> 0, releases |-> 0,
             null_release |-> TRUE]
        ended(h, e) ==
            [rc |-> e.rc, pm |-> e.pm,
             cache |-> IF h.held
                       THEN vos_obj_release(h.cache, [oid |-> oid, evicted |-> FALSE])
                       ELSE h.cache,
             begun |-> 1, commits |-> e.commits, aborts |-> e.aborts,
             holds |-> IF h.held THEN 1 ELSE 0, releases |-> IF h.held THEN 1 ELSE 0,
             null_release |-> ~h.held]
        bits(obj) == IF set THEN obj.attr \cup attr ELSE obj.attr \ (attr \cap obj.attr)
        work(h, obj, rc) ==
            IF rc = DER_SUCCESS
            THEN [pm EXCEPT !.oi = h.rest \cup
                    {vos_df_ts_update([obj EXCEPT !.attr = bits(obj)], epoch, epoch)}]
            ELSE [pm EXCEPT !.oi = h.rest \cup {obj}]
        added(h, rc) ==
            ended(h, vos_tx_end(pm,
                                IF h.rc = DER_SUCCESS
                                THEN work(h, CHOOSE r \in h.df : TRUE, rc)
                                ELSE pm,
                                rc))
        held(h) == added(h, IF h.rc # DER_SUCCESS THEN h.rc ELSE umem_tx_add_ptr(f))
    IN  IF vos_tx_begin(f = F_BEGIN) # DER_SUCCESS
        THEN not_begun(vos_tx_begin(f = F_BEGIN))
        ELSE held(vos_obj_hold(c, pm.oi, oid, epoch, FALSE, f = F_HOLD))

NoTx(rc, pm, c) ==
    [rc |-> rc, pm |-> pm, cache |-> c, begun |-> 0, commits |-> 0, aborts |-> 0,
     holds |-> 0, releases |-> 0, null_release |-> FALSE]

\* vos_oi_set_attr without the check of the bitmask
vos_oi_set_attr_unchecked(pm, c, oid, epoch, attr, f) ==
    vos_oi_set_attr_helper(pm, c, oid, epoch, attr, TRUE, f)

vos_oi_set_attr(pm, c, oid, epoch, attr, f) ==
    IF VOS_OI_PUNCHED \in attr \/ VOS_OI_REMOVED \in attr
    THEN NoTx(DER_INVAL, pm, c)
    ELSE vos_oi_set_attr_helper(pm, c, oid, epoch, attr, TRUE, f)

vos_oi_clear_attr(pm, c, oid, epoch, attr, f) ==
    IF VOS_OI_PUNCHED \in attr \/ VOS_OI_REMOVED \in attr
    THEN NoTx(DER_INVAL, pm, c)
    ELSE vos_oi_set_attr_helper(pm, c, oid, epoch, attr, FALSE, f)

\* vos_oi_get_attr: the bits of the object that serves the epoch, none
\* for an object that does not exist
vos_oi_get_attr(oi, oid, epoch) ==
    LET held(h) == [rc |-> h.rc, attr |-> UNION {r.attr : r \in h.df}]
    IN  held(vos_obj_hold(EmptyCache, oi, oid, epoch, TRUE, FALSE))

(* -------------------------- iterator delete --------------------------- *)
\* dbtree_iter_delete: the record under the cursor leaves the tree, with
\* all that is filed under it
dbtree_iter_delete(it, pos, f) ==
    IF f = F_DELETE
    THEN [rc |-> DER_NOMEM, tree |-> it.tree]
    ELSE [rc |-> DER_SUCCESS, tree |-> it.tree \ {it.s[pos]}]

\* Mutant of obj_iter_delete: a failed delete leaves the transaction open
obj_iter_delete_open(pm, it, pos, rest, obj, f) ==
    IF vos_tx_begin(f = F_BEGIN) # DER_SUCCESS
    THEN [rc |-> vos_tx_begin(f = F_BEGIN), pm |-> pm, begun |-> 0, commits |-> 0,
          aborts |-> 0]
    ELSE LET d == dbtree_iter_delete(it, pos, f)
             e == vos_tx_end(pm, [pm EXCEPT !.oi = rest \cup {[obj EXCEPT !.tree = d.tree]}],
                             d.rc)
         IN  IF d.rc # DER_SUCCESS
             THEN [rc |-> d.rc, pm |-> pm, begun |-> 1, commits |-> 0, aborts |-> 0]
             ELSE [rc |-> e.rc, pm |-> e.pm, begun |-> 1, commits |-> e.commits,
                   aborts |-> e.aborts]

\* obj_iter_delete: delete the entry under the cursor in a transaction
obj_iter_delete(pm, it, pos, rest, obj, f) ==
    LET ended(e) ==
            [rc |-> e.rc, pm |-> e.pm, begun |-> 1, commits |-> e.commits,
             aborts |-> e.aborts]
        deleted(d) ==
            ended(vos_tx_end(pm,
                             [pm EXCEPT !.oi = rest \cup {[obj EXCEPT !.tree = d.tree]}],
                             d.rc))
    IN  IF vos_tx_begin(f = F_BEGIN) # DER_SUCCESS
        THEN [rc |-> vos_tx_begin(f = F_BEGIN), pm |-> pm, begun |-> 0, commits |-> 0,
              aborts |-> 0]
        ELSE deleted(dbtree_iter_delete(it, pos, f))

\* The aggregation caller: a dkey iterator over [epr_lo, epr_hi] is
\* prepared and probed, the first entry it stops at is deleted, and the
\* iterator is finished.
vos_iter_delete_first(pm, c, oid, epr_lo, epr_hi, f) ==
    LET held_once(r) == [r EXCEPT !.holds = 1, !.releases = 1]
        deleted(p, d) ==
            [rc |-> d.rc, pm |-> d.pm, cache |-> vos_obj_iter_fini(p.cache, oid, TRUE),
             begun |-> d.begun, commits |-> d.commits, aborts |-> d.aborts,
             holds |-> 1, releases |-> 1, null_release |-> FALSE]
        probed(p, r) ==
            IF r.rc # DER_SUCCESS
            THEN held_once(NoTx(r.rc, pm, vos_obj_iter_fini(p.cache, oid, TRUE)))
            ELSE deleted(p, obj_iter_delete(pm, p.it, r.pos, pm.oi \ p.df,
                                            CHOOSE x \in p.df : TRUE, f))
        prepared(p) ==
            IF p.rc # DER_SUCCESS
            THEN held_once(NoTx(p.rc, pm, p.cache))
            ELSE probed(p, key_iter_probe(p.it, NoAnchor))
    IN  prepared(vos_obj_iter_prep(c, pm.oi, VOS_ITER_DKEY, oid, 0, 0, epr_lo, epr_hi))

(* ------------------------- reference history -------------------------- *)
\* What the callers were told succeeded: the writes and the punches, by
\* cell and epoch.  A punch of a dkey has akey 0, of an object dkey 0 too.
write_hist(g, oid, dk, ak, epoch, lo, hi, val) ==
    LET same == {w \in g.writes : w.oid = oid /\ w.dk = dk /\ w.ak = ak /\
                                  w.epoch = epoch /\ w.lo = lo /\ w.hi = hi}
    IN  [g EXCEPT !.writes = (@ \ same) \cup
           {[oid |-> oid, dk |-> dk, ak |-> ak, epoch |-> epoch,
             lo |-> lo, hi |-> hi, val |-> val]}]

SeqRange(s) == {s[i] : i \in 1..Len(s)}

punch_hist(g, oid, dk, akeys, epoch) ==
    [g EXCEPT !.punches = @ \cup
       IF akeys = <<>>
       THEN {[oid |-> oid, dk |-> dk, ak |-> 0, epoch |-> epoch]}
       ELSE {[oid |-> oid, dk |-> dk, ak |-> a, epoch |-> epoch] : a \in SeqRange(akeys)}]

\* A punch covers a cell when it names the cell's akey, its dkey or its object
Covers(p, oid, dk, ak) ==
    p.oid = oid /\ (p.dk = 0 \/ (p.dk = dk /\ (p.ak = 0 \/ p.ak = ak)))

\* The value a reader at E must get at a position: that of the write of
\* greatest epoch <= E over the position, unless a punch of the cell at an
\* epoch between that write and E covers it.
RefVal(g, oid, dk, ak, E, pos) ==
    LET ws == {w \in g.writes : w.oid = oid /\ w.dk = dk /\ w.ak = ak /\
                                w.epoch <= E /\ w.lo <= pos /\ pos <= w.hi}
        top == {w \in ws : \A v \in ws : v.epoch <= w.epoch}
    IN  IF top = {} THEN HOLE
        ELSE LET w == CHOOSE x \in top : TRUE
             IN  IF \E q \in g.punches : Covers(q, oid, dk, ak) /\
                                         w.epoch <= q.epoch /\ q.epoch <= E
                 THEN HOLE ELSE w.val

(* ------------------------------ the state ------------------------------ *)
\* pm: the persistent store (object index with its key trees, the count of
\* committed CoS DTXs); cache: the object cache; dth: the DTX handle the
\* caller passes along; ghost: the reference history; last: the last call
\* and what it did; nops, nfault: how many calls and faults so far; ext: the
\* handles other holders (iterators, the cache test) hold per object, on
\* a cached entry (live) or on an evicted one (zomb); sv: the single-value
\* iterator a caller has open, if any; nest: the stack of key iterators a
\* caller has open, a dkey iterator, an akey iterator and an iterator over
\* the values of an akey.
(* --------------------------- the pool service -------------------------- *)
\* The metadata of one pool: the handle table and the counter of handles in
\* the replicated DB, the pool map version, the handles the targets know,
\* the state of the replicated service and the cached pool.
DER_BUSY == "DER_BUSY"
DER_NOTLEADER == "DER_NOTLEADER"
DER_UNINIT == "DER_UNINIT"
DER_CANCELED == "DER_CANCELED"
DAOS_PC_RO == "DAOS_PC_RO"
DAOS_PC_RW == "DAOS_PC_RW"
DAOS_PC_EX == "DAOS_PC_EX"
Capas == {DAOS_PC_RO, DAOS_PC_RW, DAOS_PC_EX}
DS_RSVC_DOWN == "DS_RSVC_DOWN"
DS_RSVC_UP_EMPTY == "DS_RSVC_UP_EMPTY"
DS_RSVC_UP == "DS_RSVC_UP"

\* What a handler can hold when it replies
PS_LOCK == "ps_lock"
S_MUTEX == "s_mutex"
RDB_TX == "rdb_tx"
SVC_REF == "svc_ref"

\* The points a handler of the pool service can fail at
F_LEADER == "F_LEADER"
F_IV == "F_IV"
F_LOOKUP == "F_LOOKUP"
F_PROP == "F_PROP"
F_ACCESS == "F_ACCESS"
F_MAPREAD == "F_MAPREAD"
F_TRANSFER == "F_TRANSFER"
F_NHANDLES == "F_NHANDLES"
F_FETCH == "F_FETCH"
F_BCAST == "F_BCAST"
F_UPD_NH == "F_UPD_NH"
F_UPD_HDL == "F_UPD_HDL"
F_COMMIT == "F_COMMIT"
F_MAPUPD == "F_MAPUPD"
F_IVPROP == "F_IVPROP"
F_CLOSE == "F_CLOSE"
F_FIND == "F_FIND"
F_DEL1 == "F_DEL1"
F_DEL2 == "F_DEL2"
F_GROUP == "F_GROUP"
F_POOL == "F_POOL"
F_PLMAP == "F_PLMAP"
F_REBUILD == "F_REBUILD"
F_STOP == "F_STOP"
F_INIT == "F_INIT"

NoReply ==
    [op |-> "none", rc |-> DER_SUCCESS, hdl |-> 0, capas |-> "", fault |-> F_NONE,
     held |-> {}, committed |-> FALSE, pool_at_entry |-> FALSE, stepped |-> FALSE,
     asserted |-> FALSE]
EmptyDb == [handles |-> {}, nhandles |-> 0, map_version |-> 0]
NoSvc ==
    [db |-> EmptyDb, tgt |-> {}, s_state |-> DS_RSVC_DOWN, ps_pool |-> FALSE,
     sp_map_version |-> 0, leaked |-> {}, reply |-> NoReply]

VARIABLES pm, cache, dth, ghost, last, nops, nfault, ext, sv, nest, svc
vars == <<pm, cache, dth, ghost, last, nops, nfault, ext, sv, nest, svc>>

\* No single-value iterator is open
NoIter ==
    [open |-> FALSE, expr |-> "", epr_lo |-> 0, epr_hi |-> 0, recs |-> {},
     cur |-> 0, rc |-> DER_SUCCESS, probed |-> FALSE, seen |-> <<>>]

NoCall ==
    [op |-> "none", rc |-> DER_SUCCESS, oid |-> 0, epoch |-> 0, dkey |-> 0,
     akeys |-> <<>>, lo |-> 0, hi |-> 0, val |-> 0, fault |-> F_NONE, zc |-> FALSE,
     begun |-> 0, commits |-> 0, aborts |-> 0, holds |-> 0, releases |-> 0,
     evicted |-> FALSE, null_release |-> FALSE, attr |-> {}, clash |-> {},
     iter |-> "", level |-> 0, busy |-> NoBusy, ioh |-> NoIoh, need |-> 0,
     iov |-> NoIov]

Init ==
    /\ pm = [oi |-> {}, cos |-> 0]
    /\ cache = EmptyCache
    /\ dth = [cos_count |-> 1, cos_done |-> 0]
    /\ ghost = [writes |-> {}, punches |-> {}, attr |-> [o \in Oids |-> {}]]
    /\ last = NoCall
    /\ nops = 0
    /\ nfault = 0
    /\ ext = [o \in Oids |-> [live |-> 0, zomb |-> 0]]
    /\ sv = NoIter
    /\ nest = [l \in Levels |-> NoNest]
    /\ svc = NoSvc

\* A run is explored until the bound on calls or the bound on faults is
\* reached
CanCall(f) == nops < MaxOps /\ nfault < MaxFaults
Count(f) ==
    /\ nops' = nops + 1
    /\ nfault' = IF f = F_NONE THEN nfault ELSE nfault + 1

\* The entries of the tree an update at the epoch inserts into that carry
\* this epoch and overlap the extent, as the caller's trace keeps them
Clash(oi, oid, epoch, dk, ak, lo, hi) ==
    {[lo |-> x.lo, hi |-> x.hi, val |-> x.val] :
        x \in {y \in UNION {k.recs : k \in akey_lookup(oi, oid, epoch, dk, ak)} :
                  y.epoch = epoch /\ Overlap(y, lo, hi)}}

Update(oid, epoch, dk, ak, lo, hi, val, zc, f) ==
    /\ CanCall(f)
    /\ \E r \in {io_test_obj_update(pm, cache, oid, epoch, dk, ak, lo, hi, val, zc, f)} :
           /\ pm' = r.pm
           /\ cache' = r.cache
           /\ ghost' = IF r.rc = DER_SUCCESS
                       THEN write_hist(ghost, oid, dk, ak, epoch, lo, hi, val)
                       ELSE ghost
           /\ last' = [NoCall EXCEPT !.op = "update", !.rc = r.rc, !.oid = oid,
                         !.epoch = epoch, !.dkey = dk, !.akeys = <<ak>>, !.lo = lo,
                         !.hi = hi, !.val = val, !.fault = f, !.zc = zc,
                         !.clash = Clash(pm.oi, oid, epoch, dk, ak, lo, hi),
                         !.begun = r.begun, !.commits = r.commits, !.aborts = r.aborts,
                         !.ioh = [mapped |-> r.ioh.mapped, preps |-> r.ioh.preps,
                                  posts |-> r.ioh.posts, stray |-> r.ioh.stray]]
    /\ Count(f)
    /\ UNCHANGED <<dth, ext, sv, nest, svc>>

Punch(oid, epoch, dkey, akeys, use_dth, f) ==
    /\ CanCall(f)
    /\ \E r \in {vos_obj_punch(pm, cache, dth, oid, epoch, dkey, akeys, use_dth, f)} :
           /\ pm' = r.pm
           /\ cache' = r.cache
           /\ dth' = r.dth
           /\ ghost' = IF r.rc = DER_SUCCESS
                       THEN punch_hist(ghost, oid, dkey, akeys, epoch)
                       ELSE ghost
           /\ last' = [NoCall EXCEPT !.op = "punch", !.rc = r.rc, !.oid = oid,
                         !.epoch = epoch, !.dkey = dkey, !.akeys = akeys, !.fault = f,
                         !.begun = r.begun, !.commits = r.commits,
                         !.aborts = r.aborts, !.holds = r.holds,
                         !.releases = r.releases, !.evicted = r.evicted]
           /\ ext' = IF r.evicted
                     THEN [ext EXCEPT ![oid] = [live |-> 0, zomb |-> @.zomb + @.live]]
                     ELSE ext
    /\ Count(f)
    /\ UNCHANGED <<sv, nest, svc>>

(* ------------------- the data path without faults ---------------------- *)
\* What the callers write: every extent of the array akey and the single
\* value under the first dkey; the other dkeys carry one array cell and
\* are there for the enumerations.
WriteTargets ==
    {t \in [dk : Dkeys, ak : Akeys, lo : 0..MaxIdx, hi : 0..MaxIdx] :
        /\ t.lo <= t.hi
        /\ AkeyType(t.ak) = KREC_BF_BTR => t.hi = 0
        /\ t.dk # 1 => t.ak = 1 /\ t.hi = 0}
AkeyLists == {<<1>>, <<2>>, <<1, 2>>}
PunchLists(dk) == IF dk = 1 THEN AkeyLists ELSE {<<1>>}

UpdateCall ==
    \E oid \in DataOids, epoch \in Epochs, t \in WriteTargets, val \in Vals :
       Update(oid, epoch, t.dk, t.ak, t.lo, t.hi, val, FALSE, F_NONE)

PunchObj ==
    \E oid \in DataOids, epoch \in Epochs : Punch(oid, epoch, 0, <<>>, FALSE, F_NONE)

PunchDkey ==
    \E oid \in DataOids, epoch \in Epochs, dk \in Dkeys :
       Punch(oid, epoch, dk, <<>>, FALSE, F_NONE)

PunchAkeys ==
    \E oid \in DataOids, epoch \in Epochs, dk \in Dkeys :
       \E akeys \in PunchLists(dk) : Punch(oid, epoch, dk, akeys, FALSE, F_NONE)

Next == UpdateCall \/ PunchObj \/ PunchDkey \/ PunchAkeys

Spec == Init /\ [][Next]_vars

(* ------------------ transactions, pipelines and faults ----------------- *)
\* One dkey, the two akeys, the epochs below the last one; every call may
\* meet one of its faults.
TxEpochs == Epochs \ {MaxEpoch}
TxWriteTargets ==
    {t \in WriteTargets : t.dk = 1 /\ (AkeyType(t.ak) = KREC_BF_EVT => t.lo = 0 /\ t.hi = MaxIdx)}
TxPunchTargets ==
    {[dkey |-> 0, akeys |-> <<>>], [dkey |-> 1, akeys |-> <<>>],
     [dkey |-> 1, akeys |-> <<1, 2>>]}
AttrSets == {{VOS_OI_FAILED}, {OI_BIT_0x20}, {VOS_OI_FAILED, VOS_OI_PUNCHED}, {VOS_OI_REMOVED}}

SetAttr(oid, epoch, attr, set, f) ==
    /\ CanCall(f)
    /\ \E r \in {IF set THEN vos_oi_set_attr(pm, cache, oid, epoch, attr, f)
                ELSE vos_oi_clear_attr(pm, cache, oid, epoch, attr, f)} :
           /\ pm' = r.pm
           /\ cache' = r.cache
           /\ last' = [NoCall EXCEPT !.op = IF set THEN "set_attr" ELSE "clear_attr",
                         !.rc = r.rc, !.oid = oid, !.epoch = epoch, !.attr = attr,
                         !.fault = f, !.begun = r.begun, !.commits = r.commits,
                         !.aborts = r.aborts, !.holds = r.holds,
                         !.releases = r.releases, !.null_release = r.null_release]
           /\ ghost' = IF r.rc = DER_SUCCESS
                       THEN [ghost EXCEPT !.attr[oid] = IF set THEN @ \cup attr ELSE @ \ attr]
                       ELSE ghost
    /\ Count(f)
    /\ UNCHANGED <<dth, ext, sv, nest, svc>>

IterDelete(oid, epr_lo, epr_hi, f) ==
    /\ CanCall(f)
    /\ \E r \in {vos_iter_delete_first(pm, cache, oid, epr_lo, epr_hi, f)} :
           /\ pm' = r.pm
           /\ cache' = r.cache
           /\ last' = [NoCall EXCEPT !.op = "iter_delete", !.rc = r.rc, !.oid = oid,
                         !.epoch = epr_hi, !.fault = f, !.begun = r.begun,
                         !.commits = r.commits, !.aborts = r.aborts, !.holds = r.holds,
                         !.releases = r.releases]
    /\ Count(f)
    /\ UNCHANGED <<dth, ghost, ext, sv, nest, svc>>

TxUpdate ==
    \E oid \in DataOids, epoch \in TxEpochs, t \in TxWriteTargets, val \in Vals,
       zc \in BOOLEAN, f \in {F_NONE, F_PREP, F_POST, F_BEGIN, F_HOLD} :
       Update(oid, epoch, t.dk, t.ak, t.lo, t.hi, val, zc, f)

TxPunch ==
    \E oid \in DataOids, epoch \in TxEpochs, t \in TxPunchTargets, use_dth \in BOOLEAN,
       f \in Faults :
       /\ f = F_KEY2 => Len(t.akeys) >= 2
       /\ f = F_DTX => use_dth
       /\ Punch(oid, epoch, t.dkey, t.akeys, use_dth, f)

TxSetAttr ==
    \E oid \in DataOids, epoch \in TxEpochs, attr \in AttrSets, set \in BOOLEAN,
       f \in {F_NONE, F_BEGIN, F_HOLD, F_TXADD} :
       SetAttr(oid, epoch, attr, set, f)

TxIterDelete ==
    \E oid \in DataOids, epoch \in TxEpochs, f \in {F_NONE, F_BEGIN, F_DELETE} :
       IterDelete(oid, epoch, epoch, f)

NextTx == TxUpdate \/ TxPunch \/ TxSetAttr \/ TxIterDelete

SpecTx == Init /\ [][NextTx]_vars

(* --------------------------- the object cache -------------------------- *)
\* Other holders take and give back references (hold_objects of the cache
\* test: no create, epoch 1) while objects are written and punched; the
\* cache has room for LruSize entries.
HeldHandles == {h \in [oid : Oids, evicted : BOOLEAN] :
                   IF h.evicted THEN ext[h.oid].zomb > 0 ELSE ext[h.oid].live > 0}
RECURSIVE HeldIn(_)
HeldIn(S) ==
    IF S = {} THEN 0
    ELSE LET o == CHOOSE x \in S : TRUE
         IN  ext[o].live + ext[o].zomb + HeldIn(S \ {o})
NumHeld == HeldIn(Oids)

CacheHold ==
    \E oid \in Oids :
       /\ NumHeld < MaxHolds
       /\ LET h == vos_obj_hold(cache, pm.oi, oid, 1, TRUE, FALSE)
          IN  /\ h.rc = DER_SUCCESS
              /\ cache' = h.cache
       /\ ext' = [ext EXCEPT ![oid].live = @ + 1]
       /\ last' = [NoCall EXCEPT !.op = "hold", !.oid = oid, !.holds = 1]
       /\ UNCHANGED <<pm, dth, ghost, nops, nfault, sv, nest, svc>>

CacheRelease ==
    \E h \in HeldHandles :
       /\ cache' = vos_obj_release(cache, h)
       /\ ext' = IF h.evicted THEN [ext EXCEPT ![h.oid].zomb = @ - 1]
                 ELSE [ext EXCEPT ![h.oid].live = @ - 1]
       /\ last' = [NoCall EXCEPT !.op = "release", !.oid = h.oid,
                     !.evicted = h.evicted, !.releases = 1]
       /\ UNCHANGED <<pm, dth, ghost, nops, nfault, sv, nest, svc>>

CacheUpdate ==
    \E oid \in Oids, epoch \in Epochs : Update(oid, epoch, 1, 2, 0, 0, 1, FALSE, F_NONE)

CachePunch ==
    \E oid \in Oids, epoch \in Epochs, dkey \in {0, 1} :
       Punch(oid, epoch, dkey, <<>>, FALSE, F_NONE)

NextCache == CacheHold \/ CacheRelease \/ CacheUpdate \/ CachePunch

SpecCache == Init /\ [][NextCache]_vars

(* ---------------------- single-value iteration ------------------------- *)
\* A caller writes single values of one akey at several epochs, then opens
\* a single-value iterator on it with an epoch expression and an epoch
\* range, probes it, moves it with next, probes again from the anchor of
\* the entry under the cursor, and closes it.  sv.seen keeps the epochs of
\* the entries the iterator stopped on, in order.
EpochRanges == {r \in [lo : Epochs, hi : Epochs] : r.lo <= r.hi}

SvWrite ==
    \E epoch \in Epochs, val \in Vals :
       /\ ~sv.open
       /\ Update(1, epoch, 1, 2, 0, 0, val, FALSE, F_NONE)

SvPrepare ==
    \E expr \in EpcExprs, r \in EpochRanges :
       /\ ~sv.open
       /\ \E p \in {vos_singv_iter_prep(cache, pm.oi, 1, 1, 2, r.hi)} :
             /\ cache' = p.cache
             /\ sv' = IF p.rc = DER_SUCCESS
                      THEN [NoIter EXCEPT !.open = TRUE, !.expr = expr,
                                          !.epr_lo = r.lo, !.epr_hi = r.hi,
                                          !.recs = p.recs]
                      ELSE NoIter
             /\ last' = [NoCall EXCEPT !.op = "sv_prepare", !.rc = p.rc, !.oid = 1,
                           !.dkey = 1, !.akeys = <<2>>, !.epoch = r.hi]
       /\ UNCHANGED <<pm, dth, ghost, nops, nfault, ext, nest, svc>>

SvProbe ==
    /\ sv.open /\ ~sv.probed
    /\ \E r \in {singv_iter_probe(sv, 0)} :
          /\ sv' = [sv EXCEPT !.cur = r.cur, !.rc = r.rc, !.probed = TRUE,
                              !.seen = IF r.rc = DER_SUCCESS THEN <<r.cur>> ELSE <<>>]
          /\ last' = [NoCall EXCEPT !.op = "sv_probe", !.rc = r.rc]
    /\ UNCHANGED <<pm, cache, dth, ghost, nops, nfault, ext, nest, svc>>

SvProbeAnchor ==
    /\ sv.open /\ sv.probed /\ sv.rc = DER_SUCCESS
    /\ \E r \in {singv_iter_probe(sv, sv.cur)} :
          /\ sv' = [sv EXCEPT !.cur = r.cur, !.rc = r.rc,
                              !.seen = IF r.rc = DER_SUCCESS /\ r.cur # sv.cur
                                       THEN Append(@, r.cur) ELSE @]
          /\ last' = [NoCall EXCEPT !.op = "sv_probe_anchor", !.rc = r.rc]
    /\ UNCHANGED <<pm, cache, dth, ghost, nops, nfault, ext, nest, svc>>

SvNext ==
    /\ sv.open /\ sv.probed /\ sv.rc = DER_SUCCESS
    /\ \E r \in {singv_iter_next(sv, sv.cur)} :
          /\ sv' = [sv EXCEPT !.cur = r.cur, !.rc = r.rc,
                              !.seen = IF r.rc = DER_SUCCESS THEN Append(@, r.cur) ELSE @]
          /\ last' = [NoCall EXCEPT !.op = "sv_next", !.rc = r.rc]
    /\ UNCHANGED <<pm, cache, dth, ghost, nops, nfault, ext, nest, svc>>

SvFini ==
    /\ sv.open
    /\ cache' = vos_obj_iter_fini(cache, 1, TRUE)
    /\ sv' = NoIter
    /\ last' = [NoCall EXCEPT !.op = "sv_fini"]
    /\ UNCHANGED <<pm, dth, ghost, nops, nfault, ext, nest, svc>>

NextSv == SvWrite \/ SvPrepare \/ SvProbe \/ SvProbeAnchor \/ SvNext \/ SvFini

SpecSv == Init /\ [][NextSv]_vars

(* ----------------------------- key queries ----------------------------- *)
\* The callers of gen_query_tree and io_query_key: values are written to
\* extents, extents are punched by an update of size zero, akeys and
\* dkeys are punched, and the keys are queried in between.
QUpdate ==
    \E epoch \in Epochs, t \in WriteTargets, val \in Vals :
       Update(1, epoch, t.dk, t.ak, t.lo, t.hi, val, FALSE, F_NONE)

QPunchRecx ==
    \E epoch \in Epochs, t \in WriteTargets :
       /\ AkeyType(t.ak) = KREC_BF_EVT
       /\ Update(1, epoch, t.dk, t.ak, t.lo, t.hi, HOLE, FALSE, F_NONE)

QPunchAkeys ==
    \E epoch \in Epochs, dk \in Dkeys :
       \E akeys \in PunchLists(dk) : Punch(1, epoch, dk, akeys, FALSE, F_NONE)

QPunchDkey ==
    \E epoch \in Epochs, dk \in Dkeys : Punch(1, epoch, dk, <<>>, FALSE, F_NONE)

NextQuery == QUpdate \/ QPunchRecx \/ QPunchAkeys \/ QPunchDkey

SpecQuery == Init /\ [][NextQuery]_vars

(* -------------------------- nested iteration --------------------------- *)
\* The enumeration of the test: values are written, a dkey iterator (or an
\* akey iterator of its own) is prepared on the object and moved, akey
\* iterators are nested in the dkey under the cursor and value iterators
\* in the akey under the cursor, and iterators are finished in any order
\* the caller may try.  While the cursor is moved, one of the tree calls
\* may run into a modification that is not committed yet.
IterRanges == {r \in EpochRanges : r.lo = r.hi \/ r = [lo |-> 1, hi |-> MaxEpoch]}
BusySteps == {"fetch", "prepare", "akey", "probe", "next"}
BusyChoices(it) ==
    {NoBusy} \cup [step : BusySteps, pos : 0..Len(it.s)]
NestFaults == {F_NONE, F_ALLOC, F_OPEN, F_ITER}
AllClosed == \A l \in Levels : ~nest[l].open
Stepped(op, rc, type, l) ==
    [NoCall EXCEPT !.op = op, !.rc = rc, !.oid = 1, !.iter = type, !.level = l]

ItWrite ==
    \E epoch \in Epochs, t \in WriteTargets :
       /\ AllClosed /\ nops < MaxIterWrites
       /\ Update(1, epoch, t.dk, t.ak, t.lo, t.hi, 1, FALSE, F_NONE)

\* vos_iter_prepare of a dkey iterator, or of an akey iterator on a dkey;
\* the dkey iterator may itself be nested in an object iterator
ItPrepare ==
    \E l \in {1, 2}, r \in IterRanges, dk \in Dkeys, ak \in {0, 2}, nested \in BOOLEAN :
       /\ ~nest[l].open
       /\ l = 2 => ~nested /\ ~nest[1].open /\ ak = 0
       /\ l = 1 => dk = 1 /\ ~nest[2].open
       /\ \E p \in {vos_obj_iter_prep(cache, pm.oi, IF l = 1 THEN VOS_ITER_DKEY
                                                      ELSE VOS_ITER_AKEY,
                                       1, dk, ak, r.lo, r.hi)} :
             /\ cache' = p.cache
             /\ nest' = IF p.rc # DER_SUCCESS THEN nest
                        ELSE [nest EXCEPT ![l] =
                                [open |-> TRUE, type |-> p.it.type,
                                 from_parent |-> nested, obj |-> 1, it |-> p.it,
                                 pos |-> 0, nchild |-> 0]]
             /\ last' = Stepped("it_prepare", p.rc,
                                IF l = 1 THEN VOS_ITER_DKEY ELSE VOS_ITER_AKEY, l)
       /\ UNCHANGED <<pm, dth, ghost, nops, nfault, ext, sv, svc>>

ItProbe ==
    \E l \in {1, 2} :
       /\ nest[l].open /\ nest[l].nchild = 0 /\ nest[l].pos = 0
       /\ \E b \in BusyChoices(nest[l].it) :
          \E r \in {key_iter_probe([nest[l].it EXCEPT !.busy = b], NoAnchor)} :
             /\ nest' = [nest EXCEPT ![l].pos = r.pos]
             /\ last' = [Stepped("it_probe", r.rc, nest[l].type, l) EXCEPT !.busy = b]
       /\ UNCHANGED <<pm, cache, dth, ghost, nops, nfault, ext, sv, svc>>

ItNext ==
    \E l \in {1, 2} :
       /\ nest[l].open /\ nest[l].nchild = 0 /\ nest[l].pos > 0
       /\ \E b \in BusyChoices(nest[l].it) :
          \E r \in {key_iter_next([nest[l].it EXCEPT !.busy = b], nest[l].pos)} :
             /\ nest' = [nest EXCEPT ![l].pos = r.pos]
             /\ last' = [Stepped("it_next", r.rc, nest[l].type, l) EXCEPT !.busy = b]
       /\ UNCHANGED <<pm, cache, dth, ghost, nops, nfault, ext, sv, svc>>

ItNest ==
    \E l \in {2, 3}, type \in IterTypes, f \in NestFaults :
       /\ nest[l - 1].open /\ ~nest[l].open
       /\ f # F_NONE => vos_obj_iter_nested_tree_fetch(nest[l - 1], type).rc = DER_SUCCESS
       /\ \E r \in {vos_iter_nested_prepare(nest[l - 1], type, f)} :
             /\ nest' = [nest EXCEPT ![l] = r.iter, ![l - 1] = r.parent]
             /\ last' = [Stepped("it_nest", r.rc, type, l) EXCEPT !.fault = f]
       /\ UNCHANGED <<pm, cache, dth, ghost, nops, nfault, ext, sv, svc>>

ItFinish ==
    \E l \in Levels :
       /\ nest[l].open
       /\ \E r \in {vos_iter_finish(cache, nest[l])} :
             /\ cache' = r.cache
             /\ nest' = IF r.rc = DER_SUCCESS /\ nest[l].from_parent /\ l > 1
                        THEN [nest EXCEPT ![l] = r.iter, ![l - 1].nchild = @ - 1]
                        ELSE [nest EXCEPT ![l] = r.iter]
             /\ last' = Stepped("it_finish", r.rc, nest[l].type, l)
       /\ UNCHANGED <<pm, dth, ghost, nops, nfault, ext, sv, svc>>

NextIter == ItWrite \/ ItPrepare \/ ItProbe \/ ItNext \/ ItNest \/ ItFinish

SpecIter == Init /\ [][NextIter]_vars

(* ------------------------ copies out of iterators ---------------------- *)
\* Values are written and extents punched; a caller that iterates the
\* dkeys, the akeys or the record extents copies the entry under the
\* cursor into a buffer of some size.
BufLens == 0..(MaxIdx + 1)
KeyEntries ==
    {[ie_key |-> r.key, ie_key_len |-> KeyLen(r.key)] :
        r \in UNION {o.tree : o \in pm.oi}
              \cup UNION {d.tree : d \in UNION {o.tree : o \in pm.oi}}}
RecxEntries ==
    {[ie_biov |-> [hole |-> x.val = HOLE, bi_buf |-> x.val,
                   bi_data_len |-> x.hi - x.lo + 1]] :
        x \in UNION {a.recs : a \in UNION {d.tree : d \in UNION {o.tree : o \in pm.oi}}}}
Copied(op, r, need, len) ==
    /\ last' = [NoCall EXCEPT !.op = op, !.rc = r.rc, !.iov = r.iov, !.need = need,
                              !.lo = len]
    /\ UNCHANGED <<pm, cache, dth, ghost, nops, nfault, ext, sv, nest, svc>>

CpWrite ==
    \E epoch \in Epochs, t \in WriteTargets, val \in {HOLE, 1} :
       /\ val = HOLE => AkeyType(t.ak) = KREC_BF_EVT
       /\ nops < MaxIterWrites
       /\ Update(1, epoch, t.dk, t.ak, t.lo, t.hi, val, FALSE, F_NONE)

CpKey ==
    \E ent \in KeyEntries, len \in BufLens :
       Copied("copy_key", key_iter_copy(ent, [NoIov EXCEPT !.iov_buf_len = len]),
              ent.ie_key_len, len)

CpRecx ==
    \E ent \in RecxEntries, len \in BufLens :
       Copied("copy_recx", recx_iter_copy(ent, [NoIov EXCEPT !.iov_buf_len = len]),
              IF ent.ie_biov.hole THEN 0 ELSE ent.ie_biov.bi_data_len, len)

NextCopy == CpWrite \/ CpKey \/ CpRecx

SpecCopy == Init /\ [][NextCopy]_vars

(* ----------------------- pool service handlers ------------------------- *)
\* nhandles is a uint32_t; a negative number n stands for the value 2^32 + n
\* that the counter wraps around to
NumHdls == 2
HdlUuids == 1..NumHdls
MaxMapVersion == 2
MaxPoolOps == 6

\* What a handler leaves behind when it replies: the committed DB, the
\* handles on the targets, the version of the cached pool map, what it
\* still holds, and whether it committed its transaction
Replied(rc, db, tgt, ver, held, committed) ==
    [rc |-> rc, db |-> db, tgt |-> tgt, sp_map_version |-> ver, held |-> held,
     committed |-> committed]

\* Mutant of the check of existing handles: a handle that exists is
\* connected once more
connect_check_existing_again(db, hdl, capas, f) ==
    LET found == {h \in db.handles : h.uuid = hdl}
    IN  IF f = F_LOOKUP THEN [rc |-> DER_IO, skip_update |-> FALSE]
        ELSE IF found = {} THEN [rc |-> DER_SUCCESS, skip_update |-> FALSE]
        ELSE IF \A h \in found : h.capas = capas
        THEN [rc |-> DER_SUCCESS, skip_update |-> FALSE]
        ELSE [rc |-> DER_EXIST, skip_update |-> FALSE]

\* ds_pool_connect_handler, "Check existing pool handles": a handle that
\* exists with the same capabilities only gets the pool map, one with
\* other capabilities is a conflict
connect_check_existing(db, hdl, capas, f) ==
    LET found == {h \in db.handles : h.uuid = hdl}
    IN  IF f = F_LOOKUP THEN [rc |-> DER_IO, skip_update |-> FALSE]
        ELSE IF found = {} THEN [rc |-> DER_SUCCESS, skip_update |-> FALSE]
        ELSE IF \A h \in found : h.capas = capas
        THEN [rc |-> DER_SUCCESS, skip_update |-> TRUE]
        ELSE [rc |-> DER_EXIST, skip_update |-> FALSE]

\* rdb_tx_fetch with RDB_PROBE_FIRST on the handle table
FirstHdl(db) == CHOOSE h \in db.handles : \A g \in db.handles : h.uuid <= g.uuid

\* Mutant of the exclusivity check: only a request for exclusive access is
\* refused
connect_check_exclusive_one_way(db, capas, f) ==
    IF db.nhandles = 0 THEN DER_SUCCESS
    ELSE IF capas = DAOS_PC_EX THEN DER_BUSY
    ELSE IF f = F_FETCH THEN DER_IO
    ELSE IF db.handles = {} THEN DER_NONEXIST
    ELSE DER_SUCCESS

\* ds_pool_connect_handler, "Take care of exclusive handles": with handles
\* counted, exclusive access is refused, and so is any access when the
\* first handle of the table is exclusive
connect_check_exclusive(db, capas, f) ==
    IF db.nhandles = 0 THEN DER_SUCCESS
    ELSE IF capas = DAOS_PC_EX THEN DER_BUSY
    ELSE IF f = F_FETCH THEN DER_IO
    ELSE IF db.handles = {} THEN DER_NONEXIST
    ELSE IF FirstHdl(db).capas = DAOS_PC_EX THEN DER_BUSY
    ELSE DER_SUCCESS

\* ds_pool_connect_handler
ds_pool_connect_handler(s, hdl, capas, f) ==
    LET out(rc) == Replied(rc, s.db, s.tgt, s.sp_map_version, {}, FALSE)
        added == [s.db EXCEPT !.handles = {h \in @ : h.uuid # hdl}
                                            \cup {[uuid |-> hdl, capas |-> capas]},
                              !.nhandles = @ + 1]
        bcast == s.tgt \cup {hdl}
        updated(excl) ==
            IF excl # DER_SUCCESS THEN out(excl)
            ELSE IF f = F_BCAST THEN out(DER_IO)
            ELSE IF f \in {F_UPD_NH, F_UPD_HDL}
            THEN Replied(DER_NOMEM, s.db, bcast, s.sp_map_version, {}, FALSE)
            ELSE IF f = F_COMMIT
            THEN Replied(DER_NOTLEADER, s.db, bcast, s.sp_map_version, {}, FALSE)
            ELSE IF f = F_MAPUPD
            THEN Replied(DER_IO, added, bcast, s.sp_map_version, {}, TRUE)
            ELSE Replied(IF f = F_IVPROP THEN DER_IO ELSE DER_SUCCESS, added, bcast,
                         Max(s.sp_map_version, s.db.map_version), {}, TRUE)
        checked(ex) ==
            IF ex.rc # DER_SUCCESS THEN out(ex.rc)
            ELSE IF f = F_PROP THEN out(DER_NOMEM)
            ELSE IF f = F_ACCESS THEN out(DER_NO_PERM)
            ELSE IF f = F_MAPREAD
            THEN Replied(DER_IO, s.db, s.tgt, s.sp_map_version,
                         {PS_LOCK, RDB_TX, SVC_REF}, FALSE)
            ELSE IF f = F_TRANSFER THEN out(DER_IO)
            ELSE IF ex.skip_update THEN out(DER_SUCCESS)
            ELSE IF f = F_NHANDLES THEN out(DER_IO)
            ELSE updated(connect_check_exclusive(s.db, capas, f))
    IN  IF s.s_state # DS_RSVC_UP \/ f = F_LEADER THEN out(DER_NOTLEADER)
        ELSE IF f = F_IV THEN out(DER_NOMEM)
        ELSE IF f = F_BEGIN THEN out(DER_NOTLEADER)
        ELSE checked(connect_check_existing(s.db, hdl, capas, f))

\* The handles of the table in the order rdb_tx_iterate visits them
RECURSIVE HdlsInOrder(_)
HdlsInOrder(S) ==
    IF S = {} THEN <<>>
    ELSE LET u == CHOOSE x \in S : \A y \in S : x <= y
         IN  <<u>> \o HdlsInOrder(S \ {u})

\* pool_disconnect_hdls: the containers of the handles are closed, the
\* targets are told, and in the transaction the counter is lowered by the
\* number of handles and each handle is deleted; work is what the
\* transaction holds when the function returns
pool_disconnect_hdls(s, hdl_uuids, f) ==
    LET n == Len(hdl_uuids)
        told == s.tgt \ SeqRange(hdl_uuids)
        without(k) == [s.db EXCEPT !.handles =
                          {h \in @ : h.uuid \notin {hdl_uuids[i] : i \in 1..k}}]
        lowered(db) == [db EXCEPT !.nhandles = @ - n]
    IN  IF f = F_CLOSE THEN [rc |-> DER_IO, work |-> s.db, tgt |-> s.tgt]
        ELSE IF f = F_BCAST THEN [rc |-> DER_IO, work |-> s.db, tgt |-> s.tgt]
        ELSE IF f = F_NHANDLES THEN [rc |-> DER_IO, work |-> s.db, tgt |-> told]
        ELSE IF f = F_DEL1 THEN [rc |-> DER_NOMEM, work |-> s.db, tgt |-> told]
        ELSE IF f = F_DEL2 /\ n > 1
        THEN [rc |-> DER_NOMEM, work |-> without(1), tgt |-> told]
        ELSE IF f = F_UPD_NH THEN [rc |-> DER_NOMEM, work |-> without(n), tgt |-> told]
        ELSE [rc |-> DER_SUCCESS, work |-> lowered(without(n)), tgt |-> told]

\* ds_pool_disconnect_handler: a handle that is not in the table is
\* disconnected already
ds_pool_disconnect_handler(s, hdl, f) ==
    LET out(rc) == Replied(rc, s.db, s.tgt, s.sp_map_version, {}, FALSE)
        disconnected(d) ==
            IF d.rc # DER_SUCCESS
            THEN Replied(d.rc, s.db, d.tgt, s.sp_map_version, {}, FALSE)
            ELSE IF f = F_COMMIT
            THEN Replied(DER_NOTLEADER, s.db, d.tgt, s.sp_map_version, {}, FALSE)
            ELSE Replied(DER_SUCCESS, d.work, d.tgt, s.sp_map_version, {}, TRUE)
    IN  IF s.s_state # DS_RSVC_UP \/ f = F_LEADER THEN out(DER_NOTLEADER)
        ELSE IF f = F_BEGIN THEN out(DER_NOTLEADER)
        ELSE IF f = F_LOOKUP THEN out(DER_IO)
        ELSE IF ~\E h \in s.db.handles : h.uuid = hdl THEN out(DER_SUCCESS)
        ELSE disconnected(pool_disconnect_hdls(s, <<hdl>>, f))

\* ds_pool_evict_handler: every handle of the table is disconnected; the
\* result of pool_disconnect_hdls is overwritten by that of the commit
ds_pool_evict_handler(s, f) ==
    LET out(rc) == Replied(rc, s.db, s.tgt, s.sp_map_version, {}, FALSE)
        committed(d) ==
            IF f = F_COMMIT
            THEN Replied(DER_NOTLEADER, s.db, d.tgt, s.sp_map_version, {}, FALSE)
            ELSE Replied(DER_SUCCESS, d.work, d.tgt, s.sp_map_version, {}, TRUE)
        found(hdl_uuids) ==
            IF Len(hdl_uuids) > 0
            THEN committed(pool_disconnect_hdls(s, hdl_uuids, f))
            ELSE committed([rc |-> DER_SUCCESS, work |-> s.db, tgt |-> s.tgt])
    IN  IF s.s_state # DS_RSVC_UP \/ f = F_LEADER THEN out(DER_NOTLEADER)
        ELSE IF f = F_BEGIN THEN out(DER_NOTLEADER)
        ELSE IF f = F_FIND THEN out(DER_NOMEM)
        ELSE found(HdlsInOrder({h.uuid : h \in s.db.handles}))

\* What a step-up leaves behind: its result, whether svc->ps_pool is set,
\* the version of the cached pool map, and whether one of its assertions
\* on the versions failed
SteppedUp(rc, ps_pool, ver, asserted) ==
    [rc |-> rc, ps_pool |-> ps_pool, sp_map_version |-> ver, asserted |-> asserted]

\* Mutant of pool_svc_step_up_cb: the pool stays set when the rebuild
\* tasks cannot be regenerated
pool_svc_step_up_cb_keep(s, f) ==
    LET out(rc) == SteppedUp(rc, s.ps_pool, s.sp_map_version, FALSE)
        map_version == s.db.map_version
    IN  IF f = F_BEGIN THEN out(DER_NOTLEADER)
        ELSE IF map_version = 0 THEN out(DER_UNINIT)
        ELSE IF f = F_MAPREAD THEN out(DER_IO)
        ELSE IF f = F_GROUP THEN out(DER_NOMEM)
        ELSE IF f = F_POOL THEN out(DER_NOMEM)
        ELSE IF s.sp_map_version > map_version
        THEN SteppedUp(DER_SUCCESS, TRUE, s.sp_map_version, TRUE)
        ELSE IF f = F_PLMAP THEN SteppedUp(DER_NOMEM, FALSE, s.sp_map_version, FALSE)
        ELSE IF f = F_REBUILD THEN SteppedUp(DER_NOMEM, TRUE, map_version, FALSE)
        ELSE SteppedUp(DER_SUCCESS, TRUE, map_version, FALSE)

\* pool_svc_step_up_cb: the pool map is read from the DB (an empty DB is
\* DER_UNINIT), the pool is looked up or created and its map replaced when
\* it is older than the one read; a failure after the pool is set resets it
pool_svc_step_up_cb(s, f) ==
    LET out(rc) == SteppedUp(rc, s.ps_pool, s.sp_map_version, FALSE)
        map_version == s.db.map_version
    IN  IF f = F_BEGIN THEN out(DER_NOTLEADER)
        ELSE IF map_version = 0 THEN out(DER_UNINIT)
        ELSE IF f = F_MAPREAD THEN out(DER_IO)
        ELSE IF f = F_GROUP THEN out(DER_NOMEM)
        ELSE IF f = F_POOL THEN out(DER_NOMEM)
        ELSE IF s.sp_map_version > map_version
        THEN SteppedUp(DER_SUCCESS, TRUE, s.sp_map_version, TRUE)
        ELSE IF f = F_PLMAP THEN SteppedUp(DER_NOMEM, FALSE, s.sp_map_version, FALSE)
        ELSE IF f = F_REBUILD THEN SteppedUp(DER_NOMEM, FALSE, map_version, FALSE)
        ELSE SteppedUp(DER_SUCCESS, TRUE, map_version, FALSE)

\* pool_svc_step_down_cb
pool_svc_step_down_cb(s) == [s EXCEPT !.ps_pool = FALSE]

\* What the create handler leaves behind
Created(rc, db, state, up, held, committed, stepped, before) ==
    [rc |-> rc, db |-> db, s_state |-> state, ps_pool |-> up.ps_pool,
     sp_map_version |-> up.sp_map_version, asserted |-> up.asserted, held |-> held,
     committed |-> committed, stepped |-> stepped, pool_at_entry |-> before]

\* ds_pool_create_handler: under s_mutex the DB is initialised unless it
\* holds a pool map already, and a step-up that found the DB empty is
\* finished
ds_pool_create_handler(s, f) ==
    LET asis == SteppedUp(DER_SUCCESS, s.ps_pool, s.sp_map_version, FALSE)
        out(rc, held) == Created(rc, s.db, s.s_state, asis, held, FALSE, FALSE, FALSE)
        finished(db, committed, up) ==
            IF up.rc # DER_SUCCESS
            THEN Created(up.rc, db, s.s_state, up, {S_MUTEX}, committed, TRUE, s.ps_pool)
            ELSE Created(DER_SUCCESS, db, DS_RSVC_UP, up, {}, committed, TRUE, s.ps_pool)
        ended(db, committed) ==
            IF s.s_state = DS_RSVC_UP_EMPTY
            THEN finished(db, committed, pool_svc_step_up_cb([s EXCEPT !.db = db], f))
            ELSE Created(DER_SUCCESS, db, s.s_state, asis, {}, committed, FALSE, FALSE)
    IN  IF f = F_LOOKUP THEN out(DER_NONEXIST, {})
        ELSE IF f = F_STOP THEN out(DER_CANCELED, {})
        ELSE IF s.s_state = DS_RSVC_DOWN \/ f = F_BEGIN THEN out(DER_NOTLEADER, {})
        ELSE IF f = F_MAPREAD THEN out(DER_IO, {S_MUTEX})
        ELSE IF s.db.map_version # 0 THEN ended(s.db, FALSE)
        ELSE IF f = F_PROP THEN out(DER_NOMEM, {S_MUTEX})
        ELSE IF f = F_INIT THEN out(DER_NOMEM, {S_MUTEX})
        ELSE IF f = F_COMMIT THEN out(DER_NOTLEADER, {S_MUTEX})
        ELSE ended([handles |-> {}, nhandles |-> 0, map_version |-> 1], TRUE)

\* ds_pool_update_internal: a change of the pool map is committed under a
\* new version and then handed to the cached pool
ds_pool_update_internal(s, f) ==
    LET out(rc) == Replied(rc, s.db, s.tgt, s.sp_map_version, {}, FALSE)
        written == [s.db EXCEPT !.map_version = @ + 1]
    IN  IF s.s_state # DS_RSVC_UP \/ f = F_LEADER THEN out(DER_NOTLEADER)
        ELSE IF f = F_BEGIN THEN out(DER_NOTLEADER)
        ELSE IF f = F_MAPREAD THEN out(DER_IO)
        ELSE IF f = F_COMMIT THEN out(DER_NOTLEADER)
        ELSE IF f = F_MAPUPD
        THEN Replied(DER_IO, written, s.tgt, s.sp_map_version, {}, TRUE)
        ELSE Replied(DER_SUCCESS, written, s.tgt,
                     Max(s.sp_map_version, written.map_version), {}, TRUE)

(* ------------------------- the pool service runs ----------------------- *)
\* Clients connect, disconnect and evict handles and change the pool map,
\* the pool is created, and the replica steps up and down as leader.  A
\* handler waits for a lock that an earlier handler kept; a call may meet
\* one of its faults.
MaxPoolFaults == 2
ConnectFaults ==
    {F_NONE, F_LEADER, F_IV, F_BEGIN, F_LOOKUP, F_PROP, F_ACCESS, F_MAPREAD,
     F_TRANSFER, F_NHANDLES, F_FETCH, F_BCAST, F_UPD_NH, F_UPD_HDL, F_COMMIT,
     F_MAPUPD, F_IVPROP}
DisconnectFaults ==
    {F_NONE, F_LEADER, F_BEGIN, F_LOOKUP, F_CLOSE, F_BCAST, F_NHANDLES, F_DEL1,
     F_UPD_NH, F_COMMIT}
EvictFaults ==
    {F_NONE, F_LEADER, F_BEGIN, F_FIND, F_CLOSE, F_BCAST, F_NHANDLES, F_DEL1,
     F_DEL2, F_UPD_NH, F_COMMIT}
StepFaults == {F_NONE, F_BEGIN, F_MAPREAD, F_GROUP, F_POOL, F_PLMAP, F_REBUILD}
CreateFaults ==
    {F_NONE, F_LOOKUP, F_STOP, F_BEGIN, F_MAPREAD, F_PROP, F_INIT, F_COMMIT,
     F_GROUP, F_POOL, F_PLMAP, F_REBUILD}
UpdateFaults == {F_NONE, F_LEADER, F_BEGIN, F_MAPREAD, F_COMMIT, F_MAPUPD}

PoolCall(f, locks) ==
    /\ nops < MaxPoolOps
    /\ f # F_NONE => nfault < MaxPoolFaults
    /\ locks \cap svc.leaked = {}
    /\ nops' = nops + 1
    /\ nfault' = IF f = F_NONE THEN nfault ELSE nfault + 1
    /\ UNCHANGED <<pm, cache, dth, ghost, last, ext, sv, nest>>

\* The service after a handler of a client request has replied
Answered(op, r, hdl, capas, f) ==
    [svc EXCEPT !.db = r.db, !.tgt = r.tgt, !.sp_map_version = r.sp_map_version,
                !.leaked = @ \cup r.held,
                !.reply = [NoReply EXCEPT !.op = op, !.rc = r.rc, !.hdl = hdl,
                                          !.capas = capas, !.fault = f,
                                          !.held = r.held, !.committed = r.committed]]

PsConnect ==
    \E hdl \in HdlUuids, capas \in Capas, f \in ConnectFaults :
       /\ PoolCall(f, {PS_LOCK})
       /\ \E r \in {ds_pool_connect_handler(svc, hdl, capas, f)} :
             svc' = Answered("connect", r, hdl, capas, f)

PsDisconnect ==
    \E hdl \in HdlUuids, f \in DisconnectFaults :
       /\ PoolCall(f, {PS_LOCK})
       /\ \E r \in {ds_pool_disconnect_handler(svc, hdl, f)} :
             svc' = Answered("disconnect", r, hdl, "", f)

PsEvict ==
    \E f \in EvictFaults :
       /\ PoolCall(f, {PS_LOCK})
       /\ \E r \in {ds_pool_evict_handler(svc, f)} :
             svc' = Answered("evict", r, 0, "", f)

PsUpdate ==
    \E f \in UpdateFaults :
       /\ PoolCall(f, {PS_LOCK})
       /\ svc.db.map_version < MaxMapVersion
       /\ \E r \in {ds_pool_update_internal(svc, f)} :
             svc' = Answered("update", r, 0, "", f)

PsCreate ==
    \E f \in CreateFaults :
       /\ PoolCall(f, {PS_LOCK, S_MUTEX})
       /\ \E r \in {ds_pool_create_handler(svc, f)} :
             svc' = [svc EXCEPT !.db = r.db, !.s_state = r.s_state,
                                !.ps_pool = r.ps_pool,
                                !.sp_map_version = r.sp_map_version,
                                !.leaked = @ \cup r.held,
                                !.reply = [NoReply EXCEPT !.op = "create", !.rc = r.rc,
                                             !.fault = f, !.held = r.held,
                                             !.committed = r.committed,
                                             !.stepped = r.stepped,
                                             !.pool_at_entry = r.pool_at_entry,
                                             !.asserted = r.asserted]]

\* The replica is elected: the service steps up, and stays up with an
\* empty DB until the pool is created
PsStepUp ==
    \E f \in StepFaults :
       /\ PoolCall(f, {S_MUTEX})
       /\ svc.s_state = DS_RSVC_DOWN
       /\ \E r \in {pool_svc_step_up_cb(svc, f)} :
             svc' = [svc EXCEPT !.s_state = IF r.rc = DER_SUCCESS THEN DS_RSVC_UP
                                            ELSE IF r.rc = DER_UNINIT
                                            THEN DS_RSVC_UP_EMPTY ELSE DS_RSVC_DOWN,
                                !.ps_pool = r.ps_pool,
                                !.sp_map_version = r.sp_map_version,
                                !.reply = [NoReply EXCEPT !.op = "step_up", !.rc = r.rc,
                                             !.fault = f, !.stepped = TRUE,
                                             !.pool_at_entry = svc.ps_pool,
                                             !.asserted = r.asserted]]

\* The replica loses the leadership: a service that is up waits for the
\* references of its handlers and steps down; one that is up with an
\* empty DB has nothing to step down from
PsStepDown ==
    /\ PoolCall(F_NONE, {S_MUTEX})
    /\ svc.s_state # DS_RSVC_DOWN
    /\ svc.s_state = DS_RSVC_UP => SVC_REF \notin svc.leaked
    /\ svc' = IF svc.s_state = DS_RSVC_UP
              THEN [pool_svc_step_down_cb(svc) EXCEPT
                      !.s_state = DS_RSVC_DOWN,
                      !.reply = [NoReply EXCEPT !.op = "step_down", !.stepped = TRUE,
                                                !.pool_at_entry = svc.ps_pool]]
              ELSE [svc EXCEPT !.s_state = DS_RSVC_DOWN,
                               !.reply = [NoReply EXCEPT !.op = "step_down"]]

NextPool ==
    PsConnect \/ PsDisconnect \/ PsEvict \/ PsUpdate \/ PsCreate \/ PsStepUp
    \/ PsStepDown

SpecPool == Init /\ [][NextPool]_vars

(* ------------------------------ claims --------------------------------- *)
Cells == {c \in [oid : DataOids, dk : Dkeys, ak : Akeys, pos : 0..MaxIdx] :
             AkeyType(c.ak) = KREC_BF_EVT \/ c.pos = 0}

FetchAt(oi, c, E) == vos_obj_fetch(oi, c.oid, E, c.dk, c.ak, c.pos, c.pos).data[c.pos]

\* C1: for every reader epoch E and every cell, after any sequence of
\* committed updates and punches, a fetch at E returns the value of the
\* update of greatest epoch e <= E that no later write or punch at an
\* epoch e' <= E covers (the hole value when there is none).
C1_EpochMonotonicReads ==
    \A c \in Cells, E \in Epochs :
       FetchAt(pm.oi, c, E) = RefVal(ghost, c.oid, c.dk, c.ak, E, c.pos)

WritesAt(g, c, E) ==
    {w \in g.writes : w.oid = c.oid /\ w.dk = c.dk /\ w.ak = c.ak /\
                      w.epoch <= E /\ w.lo <= c.pos /\ c.pos <= w.hi}

\* A reader is served a write that overwrote another one, and a reader is
\* served a hole where a punch covers a write
C1_Witness ==
    /\ \E c \in Cells, E \in Epochs :
          /\ FetchAt(pm.oi, c, E) # HOLE
          /\ \E w1, w2 \in WritesAt(ghost, c, E) : w1.epoch < w2.epoch /\ w1.val # w2.val
    /\ \E c \in Cells, E \in Epochs :
          FetchAt(pm.oi, c, E) = HOLE /\ WritesAt(ghost, c, E) # {}

\* What a reader at E is served
FetchRecs(oi, c, E) ==
    UNION {rec_visible(k.recs, E, c.pos) : k \in akey_lookup(oi, c.oid, E, c.dk, c.ak)}
FetchAkey(oi, oid, dk, ak, E) == vos_obj_fetch(oi, oid, E, dk, ak, 0, MaxIdx)
IterDkeys(oi, oid, E) == vos_iterate_keys(oi, VOS_ITER_DKEY, oid, 0, 0, E, E)
IterAkeys(oi, oid, dk, E) == vos_iterate_keys(oi, VOS_ITER_AKEY, oid, dk, 0, E, E)

\* Something was written or punched beneath the dkey at an epoch in (e, E]
DkeyTouched(g, oid, dk, e, E) ==
    \/ \E w \in g.writes : w.oid = oid /\ w.dk = dk /\ e < w.epoch /\ w.epoch <= E
    \/ \E q \in g.punches : q.oid = oid /\ q.dk = dk /\ q.ak # 0 /\
                            e < q.epoch /\ q.epoch <= E
DkeyPunches == {q \in ghost.punches : q.dk # 0 /\ q.ak = 0}

NotRewritten(g, oid, dk, ak, e, E) ==
    ~\E w \in g.writes : w.oid = oid /\ w.dk = dk /\ w.ak = ak /\
                         e < w.epoch /\ w.epoch <= E

\* C3: after a punch of an object, a dkey or an akey at e, every fetch of
\* a punched akey at an epoch E >= e succeeds (DER_SUCCESS, not
\* DER_NONEXIST) and is empty (record size 0), as long as the akey was not
\* written again at an epoch in (e, E].
C3_FetchAfterPunchIsEmptyOK ==
    \A q \in ghost.punches : \A E \in Epochs, dk \in Dkeys, ak \in Akeys :
       (E >= q.epoch /\ Covers(q, q.oid, dk, ak) /\
        NotRewritten(ghost, q.oid, dk, ak, q.epoch, E)) =>
          LET r == FetchAkey(pm.oi, q.oid, dk, ak, E)
          IN  r.rc = DER_SUCCESS /\ r.size = 0 /\ \A i \in DOMAIN r.data : r.data[i] = HOLE

C3_Witness ==
    /\ last.op = "punch" /\ last.rc = DER_SUCCESS
    /\ \E w \in ghost.writes : w.epoch <= last.epoch /\
          Covers([oid |-> last.oid, dk |-> last.dkey, ak |-> 0, epoch |-> last.epoch],
                 w.oid, w.dk, w.ak) /\
          NotRewritten(ghost, w.oid, w.dk, w.ak, last.epoch, last.epoch)

\* Everything a reader at E can get: every fetch, the dkey enumeration and
\* the akey enumeration of every dkey
Observe(oi, oid, E) ==
    [fetch |-> [dk \in Dkeys |-> [ak \in Akeys |-> FetchAkey(oi, oid, dk, ak, E)]],
     dkeys |-> IterDkeys(oi, oid, E),
     akeys |-> [dk \in Dkeys |-> IterAkeys(oi, oid, dk, E)]]

\* The value entries of the store, with the keys they are filed under
ValueEntries(oi) ==
    UNION {UNION {UNION {{[oid |-> o.key, dk |-> d.key, ak |-> a.key, rec |-> x] :
                          x \in a.recs} : a \in d.tree} : d \in o.tree} : o \in oi}

\* C5: a punch at e changes nothing observable at a reader epoch E < e:
\* the value entries of the store are the same after the punch as before,
\* and every fetch and every key enumeration at E < e returns what it
\* returned before the punch.
C5_PunchFrame ==
    [][(last'.op = "punch" /\ last'.rc = DER_SUCCESS) =>
          /\ ValueEntries(pm'.oi) = ValueEntries(pm.oi)
          /\ \A E \in Epochs : E < last'.epoch =>
                Observe(pm'.oi, last'.oid, E) = Observe(pm.oi, last'.oid, E)]_vars

C5_Witness ==
    /\ last.op = "punch" /\ last.rc = DER_SUCCESS /\ last.epoch > 1
    /\ IterDkeys(pm.oi, last.oid, last.epoch - 1).keys # <<>>
    /\ IterDkeys(pm.oi, last.oid, last.epoch).keys # IterDkeys(pm.oi, last.oid, last.epoch - 1).keys

\* The akeys and the dkeys the visibility rule gives a reader at E
HasVisibleAkey(oi, oid, dk, E) == \E ak \in Akeys : akey_lookup(oi, oid, E, dk, ak) # {}
VisibleDkeys(oi, oid, E) ==
    {dk \in Dkeys : \E o \in key_lookup(oi, oid, E) : key_lookup(o.tree, dk, E) # {}}
NoDuplicates(keys) == Cardinality(SeqRange(keys)) = Len(keys)

\* C6 as stated: a full dkey iteration at E enumerates exactly the dkeys
\* that have at least one akey visible at E, each once.
C6_Original ==
    \A oid \in DataOids, E \in Epochs :
       LET r == IterDkeys(pm.oi, oid, E)
       IN  /\ SeqRange(r.keys) = {dk \in Dkeys : HasVisibleAkey(pm.oi, oid, dk, E)}
           /\ NoDuplicates(r.keys)

\* What key_iter_match makes of C6: a full dkey iteration at E (probe, then
\* next until DER_NONEXIST) enumerates exactly the dkeys whose own key
\* record is visible at E (created at or before E and not punched at or
\* before E), each once and in key order; the akeys beneath are looked at
\* only when the iterator carries an akey as condition.
C6_DkeyIteration ==
    \A oid \in DataOids, E \in Epochs :
       LET r == IterDkeys(pm.oi, oid, E)
       IN  /\ SeqRange(r.keys) = VisibleDkeys(pm.oi, oid, E)
           /\ NoDuplicates(r.keys)
           /\ \A i, j \in 1..Len(r.keys) : i < j => r.keys[i] < r.keys[j]
           /\ r.rc = DER_NONEXIST

\* An enumeration returns two dkeys, one of them with no visible akey
C6_Witness ==
    \E oid \in DataOids, E \in Epochs :
       LET r == IterDkeys(pm.oi, oid, E)
       IN  /\ Len(r.keys) = 2
           /\ \E i \in 1..2 : ~HasVisibleAkey(pm.oi, oid, r.keys[i], E)
           /\ \E d \in UNION {o.tree : o \in pm.oi} : d.punched

TxOps == {"update", "punch", "set_attr", "clear_attr", "iter_delete"}

\* C7: every operation that begins a PM transaction performs exactly one
\* of commit and abort, exactly once, on every exit path: the commit when
\* it returns success, the abort when it returns an error; an operation
\* that did not begin a transaction performs neither.
C7_CommitOrAbortOnce ==
    last.op \in TxOps =>
       /\ last.begun = 1 => last.commits + last.aborts = 1
       /\ last.begun = 1 => (last.commits = 1 <=> last.rc = DER_SUCCESS)
       /\ last.begun = 0 => last.commits = 0 /\ last.aborts = 0

\* A punch left by the path on which the object could not be held
C7_Witness ==
    /\ last.op = "punch" /\ last.begun = 1 /\ last.holds = 0
    /\ last.aborts = 1 /\ last.fault = F_NONE

\* All that a successful call changes, seen by a reader at the call's epoch
FullEffect(l, p) ==
    CASE l.op = "update" ->
           vos_obj_fetch(p.oi, l.oid, l.epoch, l.dkey, l.akeys[1], l.lo, l.hi).data =
              [i \in l.lo..l.hi |-> l.val]
      [] l.op = "punch" ->
           \A dk \in Dkeys, ak \in Akeys :
              (l.dkey = 0 \/ (l.dkey = dk /\ (l.akeys = <<>> \/ ak \in SeqRange(l.akeys))))
                 => FetchAkey(p.oi, l.oid, dk, ak, l.epoch).size = 0
      [] l.op = "set_attr" -> l.attr \subseteq vos_oi_get_attr(p.oi, l.oid, l.epoch).attr
      [] l.op = "clear_attr" -> l.attr \cap vos_oi_get_attr(p.oi, l.oid, l.epoch).attr = {}
      [] OTHER -> TRUE

C9_FailureLeavesNoTrace ==
    [][(last'.begun = 1 /\ last'.rc # DER_SUCCESS) =>
          /\ last'.aborts = 1 /\ last'.commits = 0
          /\ pm' = pm
          /\ ghost' = ghost
          /\ \A E \in Epochs : Observe(pm'.oi, last'.oid, E) = Observe(pm.oi, last'.oid, E)]_vars

\* The punch of the second akey of a list fails after the first akey,
\* which had data, was punched in the transaction
C9_Witness ==
    /\ last.op = "punch" /\ last.fault = F_KEY2 /\ last.rc # DER_SUCCESS
    /\ last.aborts = 1
    /\ vos_obj_fetch(pm.oi, last.oid, last.epoch, last.dkey, last.akeys[1], 0, 0).size = 1

KeptRefs(oid) ==
    IF last'.op = "release" /\ last'.oid = oid /\ ~last'.evicted
    THEN cache.ref[oid] - 1
    ELSE cache.ref[oid]

ObserveVia(c, oi, oid, E) ==
    LET h == vos_obj_hold(c, oi, oid, E, TRUE, FALSE)
    IN  [rc |-> h.rc,
         fetch |-> [x \in {y \in Cells : y.oid = 1} |->
                       vos_obj_fetch(h.df, oid, E, x.dk, x.ak, x.pos, x.pos)],
         dkeys |-> IterDkeys(h.df, oid, E),
         attr |-> UNION {r.attr : r \in h.df}]

Unheld(c) == {o \in c.ents : c.ref[o] = 0}

Bufs == [0..MaxIdx -> 0..NumVals]

PartlyCovered(oid, dk, E) ==
    /\ \E pos \in 0..MaxIdx : RefVal(ghost, oid, dk, 1, E, pos) # HOLE
    /\ \E pos \in 0..MaxIdx : RefVal(ghost, oid, dk, 1, E, pos) = HOLE

\* C12: holes yield zeros.  A fetch of the whole array range, copying or
\* zero-copy, of a dkey whose range is partly covered at E leaves in the
\* caller's buffer the written value at every covered position and zero at
\* every uncovered one, whatever the buffer held before.
C12_Original ==
    \A dk \in Dkeys, E \in Epochs, zc \in BOOLEAN, dst \in Bufs :
       PartlyCovered(1, dk, E) =>
          \A pos \in 0..MaxIdx :
             io_test_obj_fetch(pm.oi, 1, E, dk, 1, 0, MaxIdx, zc, dst, F_NONE).buf[pos]
                = RefVal(ghost, 1, dk, 1, E, pos)

\* The last call was an update of an array akey that met entries of its
\* own epoch overlapping its extent
EvtClash ==
    /\ last.op = "update" /\ last.fault = F_NONE
    /\ AkeyType(last.akeys[1]) = KREC_BF_EVT
    /\ last.clash # {}
Resend == last.clash = {[lo |-> last.lo, hi |-> last.hi, val |-> last.val]}
SameExtent == \E x \in last.clash : x.lo = last.lo /\ x.hi = last.hi

NoEqualEpochOverlap ==
    \A o \in pm.oi : \A d \in o.tree : \A a \in d.tree : \A x, y \in a.recs :
       (x # y /\ x.epoch = y.epoch) => ~Overlap(x, y.lo, y.hi)

\* C13: no extent tree ever holds two entries of equal epoch with
\* overlapping ranges, and an update that meets an entry of its epoch
\* overlapping its extent is rejected with EXIST or INVAL unless it is a
\* resend of the same extent with the same data.
C13_Original ==
    /\ NoEqualEpochOverlap
    /\ (EvtClash /\ ~Resend) => last.rc \in {DER_EXIST, DER_INVAL}

NoRecord(oi, oid) == {r \in oi : r.key = oid} = {}

MissingDkeys(oi, oid, E) ==
    {dk \in Dkeys : /\ key_lookup(oi, oid, E) # {}
                    /\ \A o \in key_lookup(oi, oid, E) :
                          {d \in o.tree : d.key = dk} = {}}

Stored == {x.epoch : x \in sv.recs}

\* C17: a probe of a single-value iterator under LE lands on the entry of
\* greatest epoch <= epr_lo, and under GE on the entry of smallest epoch
\* >= epr_lo, and reports NONEXIST when there is no such entry.
C17_Original ==
    (sv.open /\ last.op = "sv_probe" /\ sv.expr \in {VOS_IT_EPC_LE, VOS_IT_EPC_GE}) =>
       LET c == IF sv.expr = VOS_IT_EPC_LE
                THEN {e \in Stored : e <= sv.epr_lo}
                ELSE {e \in Stored : e >= sv.epr_lo}
       IN  IF c = {} THEN sv.rc = DER_NONEXIST
           ELSE /\ sv.rc = DER_SUCCESS
                /\ sv.cur \in c
                /\ \A e \in c : IF sv.expr = VOS_IT_EPC_LE THEN e <= sv.cur
                                 ELSE sv.cur <= e

\* The epochs of a set in ascending order, and a sequence backwards
RECURSIVE Ascending(_)
Ascending(S) ==
    IF S = {} THEN <<>>
    ELSE LET m == CHOOSE e \in S : \A d \in S : e <= d
         IN  <<m>> \o Ascending(S \ {m})
Backwards(q) == [i \in 1..Len(q) |-> q[Len(q) + 1 - i]]
InRange == {e \in Stored : sv.epr_lo <= e /\ e <= sv.epr_hi}
Expected ==
    IF sv.expr = VOS_IT_EPC_RR THEN Backwards(Ascending(InRange))
    ELSE Ascending(InRange)

\* C18: under RE the entries a single-value iterator stops on, from the
\* probe through every next until NONEXIST, are exactly the stored
\* entries with an epoch in [epr_lo, epr_hi], each once, in ascending
\* epoch order; under RR they are the same entries in descending order.
C18_RangeEnumeration ==
    (sv.open /\ sv.probed /\ sv.expr \in {VOS_IT_EPC_RE, VOS_IT_EPC_RR}) =>
       /\ Len(sv.seen) <= Len(Expected)
       /\ \A i \in 1..Len(sv.seen) : sv.seen[i] = Expected[i]
       /\ sv.rc = DER_SUCCESS => sv.seen # <<>> /\ sv.cur = sv.seen[Len(sv.seen)]
       /\ sv.rc # DER_SUCCESS => sv.rc = DER_NONEXIST /\ sv.seen = Expected

\* A descending enumeration came to its end after two entries, with a
\* stored entry outside the range left out
C18_Witness ==
    /\ sv.open /\ sv.expr = VOS_IT_EPC_RR /\ last.op = "sv_next"
    /\ sv.rc = DER_NONEXIST /\ Len(sv.seen) = 2 /\ sv.seen[1] > sv.seen[2]
    /\ Stored \ InRange # {}

\* The epochs an epoch expression asks for
Requested(e) ==
    CASE sv.expr = VOS_IT_EPC_GE -> e >= sv.epr_lo
      [] sv.expr = VOS_IT_EPC_LE -> e <= sv.epr_lo
      [] OTHER -> sv.epr_lo <= e /\ e <= sv.epr_hi

LiveAkeys(g, oid, dk, E) ==
    {ak \in Akeys : \E pos \in 0..MaxIdx : RefVal(g, oid, dk, ak, E, pos) # HOLE}
LiveDkeys(g, oid, E) ==
    {dk \in Dkeys :
        \E e \in Epochs :
           /\ e <= E
           /\ \/ \E w \in g.writes : w.oid = oid /\ w.dk = dk /\ w.epoch = e
              \/ \E q \in g.punches : q.oid = oid /\ q.dk = dk /\ q.ak # 0 /\ q.epoch = e
           /\ ~\E q \in g.punches : /\ q.oid = oid /\ q.ak = 0 /\ q.dk \in {0, dk}
                                      /\ e <= q.epoch /\ q.epoch <= E}
MinMax == {DAOS_GET_MIN, DAOS_GET_MAX}

\* C20: a key query at E with DAOS_GET_DKEY, or with DAOS_GET_AKEY under
\* a given dkey, and DAOS_GET_MIN or DAOS_GET_MAX returns the smallest or
\* the greatest key that is live at E by the history of updates and
\* punches, never one punched at or before E, and DER_NONEXIST when no key
\* is live at E (all punched, object punched, object missing).
C20_QueryLiveMinMax ==
    \A oid \in Oids, E \in Epochs, m \in MinMax :
       /\ LET r == vos_obj_query_key(pm.oi, oid, {DAOS_GET_DKEY, m}, E, 0)
              L == LiveDkeys(ghost, oid, E)
          IN  IF L = {} THEN r.rc = DER_NONEXIST
              ELSE r.rc = DER_SUCCESS /\ r.dkey = PickKey(L, {m})
       /\ \A dk \in Dkeys :
             LET r == vos_obj_query_key(pm.oi, oid, {DAOS_GET_AKEY, m}, E, dk)
                 L == LiveAkeys(ghost, oid, dk, E)
             IN  IF L = {} THEN r.rc = DER_NONEXIST
                 ELSE r.rc = DER_SUCCESS /\ r.akey = PickKey(L, {m})

\* The smallest akey of a dkey was written and then punched, and the
\* query for the smallest akey returns the other one
C20_Witness ==
    /\ last.op = "punch" /\ last.rc = DER_SUCCESS /\ last.akeys = <<1>>
    /\ \E w \in ghost.writes : w.oid = 1 /\ w.dk = last.dkey /\ w.ak = 1
                                /\ w.epoch <= last.epoch
    /\ vos_obj_query_key(pm.oi, 1, {DAOS_GET_AKEY, DAOS_GET_MIN}, last.epoch,
                         last.dkey).akey = 2

\* The (dkey, akey) pairs with a value at E, and those whose akey was
\* written to (a value or an extent punch) at or before E with no punch
\* of the akey, the dkey or the object since
ValuedPairs(g, oid, E) ==
    {p \in Dkeys \X Akeys : p[2] \in LiveAkeys(g, oid, p[1], E)}
LivePairs(g, oid, E) ==
    {p \in Dkeys \X Akeys :
        \E w \in g.writes :
           /\ w.oid = oid /\ w.dk = p[1] /\ w.ak = p[2] /\ w.epoch <= E
           /\ ~\E q \in g.punches : /\ Covers(q, oid, p[1], p[2])
                                      /\ w.epoch <= q.epoch /\ q.epoch <= E}
LexLess(p, q) == p[1] < q[1] \/ (p[1] = q[1] /\ p[2] <= q[2])
PickPair(P, m) ==
    IF m = DAOS_GET_MAX
    THEN CHOOSE p \in P : \A q \in P : LexLess(q, p)
    ELSE CHOOSE p \in P : \A q \in P : LexLess(p, q)
JointAnswers(g, oid, E, m, P) ==
    LET r == vos_obj_query_key(pm.oi, oid, {DAOS_GET_DKEY, DAOS_GET_AKEY, m}, E, 0)
    IN  IF P = {} THEN r.rc = DER_NONEXIST
        ELSE r.rc = DER_SUCCESS /\ <<r.dkey, r.akey>> = PickPair(P, m)

\* C21 as stated: with DAOS_GET_DKEY|DAOS_GET_AKEY the query returns the
\* lexicographic min/max (dkey, akey) pair whose value set is non-empty at
\* the epoch.
C21_Original ==
    \A E \in Epochs, m \in MinMax :
       JointAnswers(ghost, 1, E, m, ValuedPairs(ghost, 1, E))

\* C21: with DAOS_GET_DKEY|DAOS_GET_AKEY and without DAOS_GET_RECX the
\* query returns the lexicographic min/max (dkey, akey) pair whose akey is
\* live at the epoch, that is written to and not punched as a key since:
\* a dkey all of whose akeys are punched is skipped for the neighbouring
\* dkey's extreme live akey, while an akey whose extents were all punched
\* by updates of size zero still counts.
C21_JointLiveAkey ==
    \A E \in Epochs, m \in MinMax :
       JointAnswers(ghost, 1, E, m, LivePairs(ghost, 1, E))

\* The akeys of the greatest dkey are all punched, the dkey itself is
\* not, and the query for the greatest pair falls back to the dkey below
C21_Witness ==
    /\ last.op = "punch" /\ last.rc = DER_SUCCESS /\ last.dkey = 2 /\ last.akeys # <<>>
    /\ 2 \in LiveDkeys(ghost, 1, last.epoch)
    /\ vos_obj_query_key(pm.oi, 1, {DAOS_GET_DKEY, DAOS_GET_AKEY, DAOS_GET_MAX},
                         last.epoch, 0).dkey = 1

\* A dkey iteration over [lo, hi] that carries an akey as condition
IterDkeysCond(oi, oid, ak, lo, hi) == vos_iterate_keys(oi, VOS_ITER_DKEY, oid, 0, ak, lo, hi)

\* C22 as stated: a dkey iteration at the exact epoch E that carries an
\* akey as condition returns a dkey only if the akey exists under it at
\* E, that is, was written at or before E and not punched since.
C22_Original ==
    \A oid \in DataOids, E \in Epochs, ak \in Akeys :
       \A dk \in SeqRange(IterDkeysCond(pm.oi, oid, ak, E, E).keys) :
          <<dk, ak>> \in LivePairs(ghost, oid, E)

\* The iterators of the stack that use the object of their parent
Borrowers == {l \in Levels : nest[l].open /\ nest[l].from_parent
                                /\ nest[l].type # VOS_ITER_DKEY}
ParentKeepsObject ==
    \A l \in Borrowers :
       /\ l > 1 /\ nest[l - 1].open /\ nest[l - 1].nchild > 0
       /\ nest[l].obj = nest[l - 1].obj
       /\ cache.ref[nest[l].obj] >= 1
FinishOfParentRefused ==
    \A l \in Levels :
       (last'.op = "it_finish" /\ last'.level = l /\ nest[l].nchild > 0)
          => (last'.rc = DER_INVAL /\ cache' = cache /\ nest' = nest)

Borrowing(iter) == iter.from_parent /\ iter.type # VOS_ITER_DKEY
NestedStepKeepsRefs ==
    last'.op = "it_nest" => cache' = cache
FinishReleasesOwnOnly ==
    \A l \in Levels :
       (last'.op = "it_finish" /\ last'.level = l /\ last'.rc = DER_SUCCESS)
          => IF Borrowing(nest[l]) THEN cache' = cache
             ELSE /\ cache'.ref[1] = cache.ref[1] - 1
                  /\ cache'.ref[2] = cache.ref[2] /\ cache'.zref = cache.zref
PrepareTakesOne ==
    last'.op = "it_prepare"
       => /\ cache'.ref[1] = cache.ref[1] + (IF last'.rc = DER_SUCCESS THEN 1 ELSE 0)
          /\ cache'.ref[2] = cache.ref[2]

\* C30: an akey, record extent or single value iterator nested in a
\* parent leaves the reference count of the object as it is, when it is
\* prepared (with success or with any failure) and when it is finished,
\* while a dkey iterator and an iterator prepared on its own take one
\* reference when prepared (none is left after a failed prepare) and
\* release exactly that one when finished.
C30_NestedBorrows ==
    [][NestedStepKeepsRefs /\ FinishReleasesOwnOnly /\ PrepareTakesOne]_vars

\* A nested akey iterator was finished under its open dkey iterator, which
\* still holds the one reference
C30_Witness ==
    /\ last.op = "it_finish" /\ last.level = 2 /\ last.rc = DER_SUCCESS
    /\ last.iter = VOS_ITER_AKEY
    /\ nest[1].open /\ nest[1].nchild = 0 /\ cache.ref[1] = 1

\* What the move of the cursor that was just made gives when no tree call
\* reports DER_INPROGRESS
Undisturbed(l) ==
    IF last'.op = "it_probe" THEN key_iter_probe(nest[l].it, NoAnchor)
    ELSE key_iter_next(nest[l].it, nest[l].pos)
\* The tree calls a move certainly makes: the first probe, the move from
\* the cursor, and the fetch of the entry the move ends on
CertainlyCalled(l, b, r0) ==
    \/ last'.op = "it_probe" /\ b = [step |-> "probe", pos |-> 0]
    \/ last'.op = "it_next" /\ b = [step |-> "next", pos |-> nest[l].pos]
    \/ r0.rc = DER_SUCCESS /\ b = [step |-> "fetch", pos |-> r0.pos]
InProgressSurfaces ==
    \A l \in {1, 2} :
       (last'.op \in {"it_probe", "it_next"} /\ last'.level = l)
          => /\ \/ last'.rc = DER_INPROGRESS /\ nest'[l].pos = last'.busy.pos
                \/ /\ last'.rc = Undisturbed(l).rc
                   /\ nest'[l].pos = Undisturbed(l).pos
             /\ CertainlyCalled(l, last'.busy, Undisturbed(l))
                   => last'.rc = DER_INPROGRESS

\* C24: when a tree call made by a probe or a next of a key iterator
\* reports DER_INPROGRESS, the move stops there and returns
\* DER_INPROGRESS: the entry is not passed over, no other entry is
\* returned in its place and no other error; a move none of whose calls
\* reports it ends as it would have.
C24_InProgressPropagates == [][InProgressSurfaces]_vars

\* The lookup of the akey of a conditional dkey iteration reported
\* DER_INPROGRESS and so did the probe
C24_Witness ==
    /\ last.op = "it_probe" /\ last.rc = DER_INPROGRESS
    /\ last.busy.step = "akey" /\ last.iter = VOS_ITER_DKEY

\* The descriptor of an operation that has ended: every prep that
\* succeeded was followed by one post, and no post was issued on a
\* descriptor that was not mapped by a prep
Paired(ioh) == ioh.posts = ioh.preps /\ ioh.stray = 0 /\ ioh.preps <= 1
ZcFetches ==
    {io_test_obj_fetch(pm.oi, 1, E, 1, ak, 0, IF ak = 1 THEN MaxIdx ELSE 0, TRUE,
                       [k \in 0..MaxIdx |-> 1], f) :
        E \in Epochs, ak \in Akeys, f \in {F_NONE, F_PREP, F_POST}}

\* C25: when an update (copying or zero-copy) or a zero-copy fetch has
\* ended, with success or with the failure of any stage, bio_iod_post was
\* issued on its descriptor exactly once if bio_iod_prep succeeded, also
\* when the post itself fails, and not at all if the prep failed.
C25_PrepPostPaired ==
    /\ last.op = "update" => Paired(last.ioh)
    /\ \A r \in ZcFetches : Paired(r.ioh)

\* A zero-copy update whose post failed: one prep, one post, and the
\* update ended with the error; and a zero-copy fetch whose prep failed
C25_Witness ==
    /\ last.op = "update" /\ last.zc /\ last.fault = F_POST /\ last.rc = DER_IO
    /\ last.ioh.preps = 1 /\ last.ioh.posts = 1
    /\ \E r \in ZcFetches : r.rc = DER_NOMEM /\ r.ioh.preps = 0 /\ r.ioh.posts = 0

\* C26 as stated: a copy into a buffer smaller than the data to be read
\* fails with DER_OVERFLOW and returns the size the buffer must have.
C26_Original ==
    (last.op \in {"copy_key", "copy_recx"} /\ last.lo < last.need)
       => (last.rc = DER_OVERFLOW /\ last.iov.iov_len = last.need)

\* ---- Reserved attribute bits ----

AttrOps == {"set_attr", "clear_attr"}
Reserved(attr) == VOS_OI_PUNCHED \in attr \/ VOS_OI_REMOVED \in attr

\* A set or clear that names a reserved bit
RejectedCall == last'.op \in AttrOps /\ Reserved(last'.attr)

\* The call returned INVAL, began no transaction, held nothing, and left the
\* pool, the object cache and the reference of attribute bits as they were
LeftAlone ==
    /\ last'.rc = DER_INVAL
    /\ last'.begun = 0 /\ last'.holds = 0
    /\ pm' = pm /\ cache' = cache /\ dth' = dth /\ ghost' = ghost

\* C27: set_attr and clear_attr reject every bitmask that contains PUNCHED or
\* REMOVED with INVAL, and the rejected call changes no attribute bit, no
\* epoch and nothing else of the object.
C27_ReservedBitsRejected == [][RejectedCall => LeftAlone]_vars

\* A rejected call on an object that exists and carries an attribute bit
C27_Witness ==
    /\ last.op \in AttrOps /\ Reserved(last.attr) /\ last.rc = DER_INVAL
    /\ vos_oi_get_attr(pm.oi, last.oid, last.epoch).attr # {}

\* ---- Attribute bits set and cleared ----

\* The object was never punched as a whole
NeverPunched(oid) == ~\E q \in ghost.punches : q.oid = oid /\ q.dk = 0
NoObject(oid) == ~\E r \in pm.oi : r.key = oid

\* get_attr at the last epoch, which follows every epoch a call was made at;
\* the claim is also read at the epoch of the call that has just succeeded
AttrNow(oid) == vos_oi_get_attr(pm.oi, oid, MaxEpoch)

\* C28: after any sequence of successful set_attr and clear_attr calls,
\* get_attr succeeds and returns exactly the bits that were set and not
\* cleared afterwards, no bit for an object that does not exist; a set or a
\* clear changes only the bits it names.
C28_AttrBitsTracked ==
    \A oid \in Oids :
       /\ AttrNow(oid).rc = DER_SUCCESS
       /\ NeverPunched(oid) => AttrNow(oid).attr = ghost.attr[oid]
       /\ NoObject(oid) =>
             \A E \in Epochs : vos_oi_get_attr(pm.oi, oid, E) = [rc |-> DER_SUCCESS, attr |-> {}]
       /\ last.op \in AttrOps /\ last.rc = DER_SUCCESS /\ last.oid = oid /\ NeverPunched(oid) =>
             vos_oi_get_attr(pm.oi, oid, last.epoch) = [rc |-> DER_SUCCESS, attr |-> ghost.attr[oid]]

\* A clear of one bit succeeded on an object that carried two and left the other
C28_Witness ==
    /\ last.op = "clear_attr" /\ last.rc = DER_SUCCESS
    /\ NeverPunched(last.oid)
    /\ ghost.attr[last.oid] # {} /\ ghost.attr[last.oid] \cap last.attr = {}
    /\ AttrNow(last.oid).attr = ghost.attr[last.oid]

\* ---- Keys an iterator skips ----

\* The key iterators a caller can prepare on the objects: dkey iterators,
\* with or without an akey condition, and akey iterators of every dkey
PreparedKeyIters ==
    {p.it : p \in {q \in
        {vos_obj_iter_prep(EmptyCache, pm.oi, VOS_ITER_DKEY, oid, 0, ak, r.lo, r.hi) :
            oid \in DataOids, ak \in {0} \cup Akeys, r \in EpochRanges}
        \cup
        {vos_obj_iter_prep(EmptyCache, pm.oi, VOS_ITER_AKEY, oid, dk, 0, r.lo, r.hi) :
            oid \in DataOids, dk \in Dkeys, r \in EpochRanges} :
        q.rc = DER_SUCCESS}}
Unconditional(it) == it.type = VOS_ITER_AKEY \/ it.akey = 0

\* The rule of the claim for the key under the cursor
Skipped(it, i) ==
    \/ it.s[i].earliest > it.epr_hi
    \/ it.s[i].punched /\ it.s[i].latest <= it.epr_lo

\* Where a cursor that skips by that rule alone stops, from position i on
Stop(it, i) ==
    LET ok == {j \in i..Len(it.s) : ~Skipped(it, j)}
    IN  IF ok = {} THEN [rc |-> DER_NONEXIST, pos |-> 0]
        ELSE [rc |-> DER_SUCCESS, pos |-> CHOOSE j \in ok : \A k \in ok : j <= k]

\* probe stops where the rule says, and so does next from every key the
\* rule accepts
StopsByRule(it) ==
    /\ key_iter_probe(it, NoAnchor) = Stop(it, 1)
    /\ \A i \in 1..Len(it.s) : ~Skipped(it, i) => key_iter_next(it, i) = Stop(it, i + 1)

\* The same for the moves that end on a key or at the end of the tree
Moved(r) == r.rc \in {DER_SUCCESS, DER_NONEXIST}
MovesByRule(it) ==
    /\ Moved(key_iter_probe(it, NoAnchor)) => key_iter_probe(it, NoAnchor) = Stop(it, 1)
    /\ \A i \in 1..Len(it.s) :
          ~Skipped(it, i) /\ Moved(key_iter_next(it, i)) =>
             key_iter_next(it, i) = Stop(it, i + 1)

\* C29 as stated: on probe and next, a key iterator with range
\* [epr.lo, epr.hi] skips the current key if and only if its earliest epoch
\* is above epr.hi or it is punched with latest epoch <= epr.lo, and accepts
\* every other key.
C29_Original == \A it \in PreparedKeyIters : MovesByRule(it)

\* C29 amended: a key iterator without an akey condition skips the current
\* key on probe and next if and only if its earliest epoch is above epr.hi
\* or it is punched with latest epoch <= epr.lo; a skipped key is never
\* returned and an acceptable key is never skipped.
C29_SkipRuleUnconditional ==
    \A it \in PreparedKeyIters : Unconditional(it) => StopsByRule(it)

\* An unconditional iterator passes a punched key and a key created after
\* its range, and stops on a key behind them
C29_Witness ==
    \E it \in PreparedKeyIters :
       /\ Unconditional(it)
       /\ key_iter_probe(it, NoAnchor).rc = DER_SUCCESS
       /\ \E i, j \in 1..Len(it.s) :
             /\ i < key_iter_probe(it, NoAnchor).pos /\ j < key_iter_probe(it, NoAnchor).pos
             /\ it.s[i].punched /\ it.s[i].latest <= it.epr_lo
             /\ it.s[j].earliest > it.epr_hi

\* ---- The epoch range of a nested iterator ----

\* The iterator at level l was nested in the key its parent stopped on and
\* accepted
NestedInAccepted(l) ==
    /\ nest[l].open /\ nest[l].from_parent
    /\ nest[l - 1].open /\ nest[l - 1].pos > 0
    /\ key_iter_match(nest[l - 1].it, nest[l - 1].pos).opc = IT_OPC_NOOP

\* C31: for every key a parent iterator has accepted, the epoch range handed
\* to the nested iterator, [max(parent epr.lo, key earliest),
\* min(parent epr.hi, key latest)], is not empty (lo <= hi) and lies within
\* the range of the parent.
C31_Original ==
    \A l \in {2, 3} :
       NestedInAccepted(l) =>
          /\ nest[l].it.epr_lo <= nest[l].it.epr_hi
          /\ nest[l - 1].it.epr_lo <= nest[l].it.epr_lo
          /\ nest[l].it.epr_hi <= nest[l - 1].it.epr_hi

\* ---- Holds and releases of a call ----

\* C32: on every exit path of punch, set/clear attribute and iterator
\* prepare, each successful vos_obj_hold is matched by exactly one
\* vos_obj_release, and vos_obj_release is never called for an object that
\* was not held, in particular not when the transaction begin or the hold
\* itself failed.
C32_Original ==
    last.op \in {"punch", "set_attr", "clear_attr", "iter_delete"} =>
       last.holds = last.releases /\ ~last.null_release

\* ---- The search loops of the iterators ----

\* The single-value iterators a caller can prepare on the stored trees
SingvIters ==
    {[recs |-> a.recs, expr |-> x, epr_lo |-> lo, epr_hi |-> hi] :
        a \in {b \in UNION {d.tree : d \in UNION {o.tree : o \in pm.oi}} :
                  b.bmap = KREC_BF_BTR},
        x \in EpcExprs, lo \in Epochs, hi \in Epochs}

\* From the entry at position i the pass of key_iter_match_probe ends the
\* loop or moves the cursor to a later position or past the end
KeyLoopAdvances(it, i) ==
    LET m == key_iter_match(it, i)
    IN  /\ m.opc = IT_OPC_PROBE =>
              \/ dbtree_iter_probe_from(it.s, m.key, m.epoch, TRUE) = 0
              \/ dbtree_iter_probe_from(it.s, m.key, m.epoch, TRUE) > i
        /\ m.opc = IT_OPC_NEXT =>
              dbtree_iter_next(it.s, i) = 0 \/ dbtree_iter_next(it.s, i) > i

\* The probe a pass of singv_iter_probe_epr asks for fails or lands on an
\* entry on which the next pass ends the loop
Reprobes(it, e) == singv_iter_epr_match(it, e).opc # IT_OPC_NOOP
Reprobed(it, e) ==
    singv_iter_probe_fetch(it, singv_iter_epr_match(it, e).opc,
                           singv_iter_epr_match(it, e).epoch)
SingvLoopEnds(it, e) ==
    Reprobes(it, e) /\ Reprobed(it, e).rc = DER_SUCCESS =>
       ~Reprobes(it, Reprobed(it, e).cur)

\* C33: the search loops of the iterators terminate for every tree content
\* and epoch range: in key_iter_match_probe each PROBE(GT) or NEXT step
\* moves the cursor strictly forward, and in singv_iter_probe_epr each
\* re-probe lands on an entry that ends the loop.
C33_SearchLoopsTerminate ==
    /\ \A it \in PreparedKeyIters : \A i \in 1..Len(it.s) : KeyLoopAdvances(it, i)
    /\ \A it \in SingvIters : \A e \in {x.epoch : x \in it.recs} : SingvLoopEnds(it, e)

\* A key iterator leaves a punched key by a probe that lands further on,
\* and a single-value iterator probes again and lands on an entry
C33_Witness ==
    /\ \E it \in PreparedKeyIters : \E i \in 1..Len(it.s) :
          /\ key_iter_match(it, i).opc = IT_OPC_PROBE
          /\ it.s[i].punched
          /\ dbtree_iter_probe_from(it.s, key_iter_match(it, i).key,
                                    key_iter_match(it, i).epoch, TRUE) > i
    /\ \E it \in SingvIters : \E e \in {x.epoch : x \in it.recs} :
          Reprobes(it, e) /\ Reprobed(it, e).rc = DER_SUCCESS

\* ---- Exclusive pool handles ----

ExclusiveHdls(db) == {h \in db.handles : h.capas = DAOS_PC_EX}
\* No handle, one exclusive handle, or handles none of which is exclusive
ExclusiveAlone == \A h \in ExclusiveHdls(svc.db) : svc.db.handles = {h}

\* A connect that meets no fault on a service that is up
PlainConnect ==
    /\ svc'.reply.op = "connect" /\ svc'.reply.fault = F_NONE
    /\ svc.s_state = DS_RSVC_UP
\* It asks for exclusive access while a handle exists, or an exclusive
\* handle exists
Contended ==
    \/ svc'.reply.capas = DAOS_PC_EX /\ svc.db.handles # {}
    \/ ExclusiveHdls(svc.db) # {}
NewHdl == ~\E h \in svc.db.handles : h.uuid = svc'.reply.hdl

\* C34 as stated: after any sequence of committed connects, disconnects and
\* evictions the handle set is empty, one exclusive handle, or any number of
\* non-exclusive handles: a connect requesting exclusive access while any
\* handle exists, and any connect while an exclusive handle exists, fails
\* with BUSY.
C34_Original ==
    /\ []ExclusiveAlone
    /\ [][PlainConnect /\ Contended => svc'.reply.rc = DER_BUSY]_vars

\* C34 amended: the handle set is empty, one exclusive handle, or any
\* number of non-exclusive handles: a connect of a handle that is not in the
\* table fails with BUSY and changes nothing when it requests exclusive
\* access while any handle exists, or while an exclusive handle exists.
C34_ExclusiveAlone ==
    /\ []ExclusiveAlone
    /\ [][PlainConnect /\ Contended /\ NewHdl =>
             svc'.reply.rc = DER_BUSY /\ svc'.db = svc.db /\ svc'.tgt = svc.tgt]_vars

\* A second handle was refused while an exclusive handle is connected
C34_Witness ==
    /\ svc.reply.op = "connect" /\ svc.reply.fault = F_NONE
    /\ svc.reply.rc = DER_BUSY /\ svc.reply.capas # DAOS_PC_EX
    /\ ExclusiveHdls(svc.db) # {}
    /\ ~\E h \in svc.db.handles : h.uuid = svc.reply.hdl

\* ---- The counter of pool handles ----

\* C35: after any sequence of committed connect, disconnect and evict
\* requests (repeated connects of the same handle and disconnects of unknown
\* handles included), the stored nhandles counter equals the number of
\* records in the pool handle table and never underflows.
C35_Original ==
    /\ svc.db.nhandles = Cardinality(svc.db.handles)
    /\ svc.db.nhandles >= 0

\* ---- What a handler still holds when it replies ----

\* C36: every pool-service RPC handler, on every exit path, releases each
\* lock it acquired (ps_lock, the rsvc s_mutex), ends the RDB transaction it
\* began and drops its service reference before it sends the reply.
C36_Original ==
    svc.reply.op \in {"connect", "disconnect", "evict", "create"} =>
       svc.reply.held = {}

\* ---- A connect that fails ----

FailedConnect == svc'.reply.op = "connect" /\ svc'.reply.rc # DER_SUCCESS

\* C37: if a connect request fails at any step (handle conflict, access
\* check, map read or transfer, exclusivity check, target broadcast, or
\* commit), no partial connect state survives: the handle is recorded
\* neither in the handle table of the pool service nor on any target, and
\* nhandles is unchanged.
C37_Original ==
    [][FailedConnect =>
          /\ svc'.db.handles = svc.db.handles
          /\ svc'.db.nhandles = svc.db.nhandles
          /\ svc'.tgt = svc.tgt]_vars

\* ---- An eviction whose disconnect fails ----

\* The evict handler has called pool_disconnect_hdls for the handles of the
\* table and the call has failed
EvictDisconnectFailed ==
    /\ svc'.reply.op = "evict" /\ svc.s_state = DS_RSVC_UP
    /\ svc'.reply.fault \notin {F_LEADER, F_BEGIN, F_FIND}
    /\ svc.db.handles # {}
    /\ pool_disconnect_hdls(svc, HdlsInOrder({h.uuid : h \in svc.db.handles}),
                            svc'.reply.fault).rc # DER_SUCCESS

\* C38: the evict handler commits its transaction only if disconnecting all
\* handles succeeded: when pool_disconnect_hdls fails, nothing is committed,
\* the handle table and nhandles are unchanged, and the failure is returned
\* to the client.
C38_Original ==
    [][EvictDisconnectFailed =>
          /\ ~svc'.reply.committed
          /\ svc'.db = svc.db
          /\ svc'.reply.rc # DER_SUCCESS]_vars

\* ---- Requests that are repeated ----

\* The handle of the request that was just answered, as it was registered
\* when the request came in
Registered == {h \in svc.db.handles : h.uuid = svc'.reply.hdl}
NothingChanged == svc'.db = svc.db /\ svc'.tgt = svc.tgt /\ ~svc'.reply.committed
Unfailing == svc'.reply.fault = F_NONE

RepeatedConnect ==
    (svc'.reply.op = "connect" /\ svc.s_state = DS_RSVC_UP /\ Registered # {}) =>
       /\ NothingChanged
       /\ Unfailing =>
             svc'.reply.rc = IF \A h \in Registered : h.capas = svc'.reply.capas
                             THEN DER_SUCCESS ELSE DER_EXIST
UnknownDisconnect ==
    (svc'.reply.op = "disconnect" /\ svc.s_state = DS_RSVC_UP /\ Registered = {}) =>
       /\ NothingChanged
       /\ Unfailing => svc'.reply.rc = DER_SUCCESS

\* C39: connect and disconnect are idempotent per handle UUID: repeating a
\* connect with a registered handle and the same capabilities succeeds
\* without changing the handle table or nhandles, with other capabilities it
\* fails with EXIST, and disconnecting a handle that is not registered
\* succeeds without changing anything.
C39_Idempotent == [][RepeatedConnect /\ UnknownDisconnect]_vars

\* A connect of a registered handle with its capabilities was answered with
\* success and without a commit, beside another handle
C39_Witness ==
    /\ svc.reply.op = "connect" /\ svc.reply.fault = F_NONE
    /\ svc.reply.rc = DER_SUCCESS /\ ~svc.reply.committed
    /\ [uuid |-> svc.reply.hdl, capas |-> svc.reply.capas] \in svc.db.handles
    /\ svc.db.nhandles = 2 /\ Cardinality(svc.db.handles) = 2

\* ---- Stepping up and down ----

\* pool_svc_step_up_cb was entered, by the election or by the create
\* handler that finishes a step-up; pool_svc_step_down_cb was entered
StepUpEntered == svc'.reply.stepped /\ svc'.reply.op \in {"step_up", "create"}
StepDownEntered == svc'.reply.stepped /\ svc'.reply.op = "step_down"

EnteredInTurn ==
    /\ StepUpEntered => ~svc.ps_pool /\ ~svc'.reply.pool_at_entry
    /\ StepDownEntered => svc.ps_pool /\ svc'.reply.pool_at_entry /\ ~svc'.ps_pool
FailedStepUpLeavesNull ==
    StepUpEntered /\ svc'.reply.rc # DER_SUCCESS => ~svc'.ps_pool
CachedVersionBounded ==
    StepUpEntered /\ svc'.reply.rc = DER_SUCCESS =>
       /\ svc'.ps_pool /\ ~svc'.reply.asserted
       /\ svc.sp_map_version <= svc'.db.map_version
       /\ svc'.sp_map_version = svc'.db.map_version

\* C40: under any interleaving of leader step-up, step-down and pool-create
\* requests, step-up is entered only with svc->ps_pool NULL and step-down
\* only with svc->ps_pool non-NULL; a step-up that fails or finds an empty DB
\* leaves ps_pool NULL, and on a successful step-up the cached pool map
\* version never exceeds the version read from the committed DB.
C40_StepUpStepDown ==
    [][EnteredInTurn /\ FailedStepUpLeavesNull /\ CachedVersionBounded]_vars

\* The replica was elected again after it had stepped down, and its cached
\* pool took the map of version 2 from the DB
C40_Witness ==
    /\ svc.reply.op = "step_up" /\ svc.reply.rc = DER_SUCCESS
    /\ ~svc.reply.pool_at_entry /\ svc.ps_pool
    /\ svc.db.map_version = 2 /\ svc.sp_map_version = 2

====
